---- MODULE Spec2Model ----
(***************************************************************************)
(* Module graph engine of athena: the depth-first expansion over the       *)
(* module graph (src/src/depth_first_expansion.rs) and the path / module   *)
(* interning store (src/src/dependency_graph_store.rs).                    *)
(***************************************************************************)
EXTENDS Integers, Sequences, FiniteSets, TLC

(***************************************************************************)
(* Bounds of the model.                                                    *)
(***************************************************************************)
\* number of nodes (graph.node_count()) and largest number of edges of the graphs
\* on which the set-valued claims about the traversal are tried
NumNodes == 4
MaxEdges == 3
\* largest number of edges of the graphs on which depth bounds are compared
DeepEdges == 4
\* the same for the graphs on which every run of the traversal is explored
DfsNodes == 3
DfsEdges == 3
\* largest max_depth argument tried (0 = unbounded)
MaxDepthArg == 3
\* number of nodes and largest number of edges of the graphs on which every
\* run of a split traversal is explored
SplitNodes == 2
SplitEdges == 3
\* largest number of forks a traversal is split into
MaxForks == 2
\* largest number of paths in the file list given to DependencyGraphStore::new
MaxFiles == 2
\* largest number of calls made on a constructed store
MaxCalls == 2
\* largest number of imports of one file
MaxImports == 2
\* largest number of arguments of a call expression
MaxArgs == 2
\* largest number of entries an ImportVisitor collects
MaxVisited == 2
\* largest number of lines the prompt loop reads
MaxLines == 4

VARIABLES
    \* ---- DepthFirstExpansion -------------------------------------------
    graph,        \* the DiGraph: [node_count, edges], edges in insertion order,
                  \* each <<from, to>>
    direction,    \* "Outgoing" | "Incoming"
    max_depth,    \* u32, 0 = unbounded
    seed,         \* the node_idx given to DepthFirstExpansion::new
    forks,        \* the traversals sharing seen_nodes; forks[1] is the original.
                  \* Each is [stack, pc, item]: pc = "idle" between next() calls,
                  \* "mark" when next() has read seen_nodes[item] = false and has
                  \* not yet taken the write lock, "done" once next() returned None
    seen_nodes,   \* Arc<RwLock<Vec<bool>>>, shared by all forks
    yielded,      \* the set of node indices returned by next() (all forks)
    \* ---- DependencyGraphStore ------------------------------------------
    files,               \* the paths handed to DependencyGraphStore::new
    base_url,            \* tsconfig.base_url: {} (None) or {path}
    path_id_to_path,     \* Vec<PathBuf>
    path_to_path_id,     \* HashMap<PathBuf, PathId>
    module_id_to_module, \* Vec<Module>, a Module is [path_id, module_id]
    path_id_to_module,   \* HashMap<PathId, Module>
    pending,             \* resolve_paths: the (alias -> module) pairs its final
                         \* for_each has not yet committed
    threads,             \* the threads calling into the shared store: each is
                         \* [pc, op, path, phase, path_id, module], stopped
                         \* where the code holds no lock
    hist,                \* history: [path_ids, module_ids: the ids in the order
                         \* they were created; ret: the <<path, id>> pairs
                         \* get_id_for_path returned; calls: the calls made on
                         \* the constructed store, each <<operation, path, id>>]
    \* ---- DependencyGraph ------------------------------------------------
    raw_dependencies,    \* the argument of resolve_imports: a sequence of
                         \* <<owner path, sequence of import paths>>
    path_to_module_id_map, \* HashMap<PathBuf, ModuleID>
    node_module_deps,    \* resolve_imports: Mutex<HashMap<PathBuf, ModuleID>>
    node_module_import_path_to_node_module_id,
                         \* resolve_imports: Mutex<HashMap<&PathBuf, ModuleID>>
    resolution_errors_raw, \* resolve_imports: Vec<ResolutionError>, each
                         \* [file, message], message <<import, path tried>>
    items,               \* resolve_imports: the run of the filter_map closure
                         \* on each import <<owner index, import index>>:
                         \* [pc, result], pc = "todo" before it starts,
                         \* "missed" once every lookup has missed and the
                         \* locks are free, "done" with result {} (None) or
                         \* {id} once it has returned
    returned,            \* {} while resolve_imports runs, then {[errors,
                         \* resolved_dependencies]}, errors {} (None) or {map}
    dependency_graph,    \* the DependencyGraph's [module_ids, module_id_to_idx,
                         \* module_edge_offsets, module_edges]
    \* ---- locks of the DependencyGraphStore -----------------------------
    guards,              \* the RwLock guards each thread of threads holds:
                         \* a set of <<lock, "read" | "write">>
    \* ---- ImportVisitor -------------------------------------------------
    visitor,             \* the ImportVisitor: [errors: Vec<String>, each
                         \* message <<format, kind, found>>; dependencies:
                         \* Vec<PathBuf>, the import strings found]
    visited,             \* history: the nodes given to the visit methods, in
                         \* the order of the calls
    \* ---- main: the prompt loop ------------------------------------------
    repl,                \* [pc, file_input]: pc = "path" or "direction" when
                         \* main is at the read_line of that prompt, "exited"
                         \* once main has returned, "panicked" once it has
                         \* panicked; file_input is the path of this cycle
    console              \* history: what main has printed and read, in order

dfsVars == <<graph, direction, max_depth, seed, forks, seen_nodes, yielded>>

storeVars == <<files, base_url, path_id_to_path, path_to_path_id,
               module_id_to_module, path_id_to_module, pending, threads, hist>>

resolveVars == <<raw_dependencies, path_to_module_id_map, node_module_deps,
                 node_module_import_path_to_node_module_id, resolution_errors_raw,
                 items, returned, dependency_graph>>

vars == <<graph, direction, max_depth, seed, forks, seen_nodes, yielded,
          files, base_url, path_id_to_path, path_to_path_id,
          module_id_to_module, path_id_to_module, pending, threads, hist,
          raw_dependencies, path_to_module_id_map, node_module_deps,
          node_module_import_path_to_node_module_id, resolution_errors_raw,
          items, returned, dependency_graph,
          guards, visitor, visited, repl, console>>

visitorVars == <<visitor, visited>>

replVars == <<repl, console>>

otherVars == <<guards, visitor, visited, repl, console>>

\* no thread holds a guard, no ImportVisitor constructed, main not at its loop
OthersIdle ==
    /\ guards = <<>>
    /\ visitor = [errors |-> <<>>, dependencies |-> <<>>]
    /\ visited = <<>>
    /\ repl = [pc |-> "none", file_input |-> <<>>]
    /\ console = <<>>

\* lines 47-50 of dependency_graph.rs: the graph DependencyGraph::new starts with
EmptyDependencyGraph ==
    [module_ids |-> <<>>, module_id_to_idx |-> <<>>,
     module_edge_offsets |-> <<>>, module_edges |-> <<>>]

\* no DependencyGraph constructed
ResolveIdle ==
    /\ raw_dependencies = <<>>
    /\ path_to_module_id_map = <<>>
    /\ node_module_deps = <<>>
    /\ node_module_import_path_to_node_module_id = <<>>
    /\ resolution_errors_raw = <<>>
    /\ items = <<>>
    /\ returned = {}
    /\ dependency_graph = EmptyDependencyGraph

Nodes(g) == 0 .. (g.node_count - 1)
Directions == {"Outgoing", "Incoming"}

RECURSIVE SeqsUpTo(_, _)
\* all sequences over S of length at most n
SeqsUpTo(S, n) ==
    IF n = 0 THEN {<<>>}
    ELSE LET shorter == SeqsUpTo(S, n - 1)
         IN  shorter \cup {Append(s, x) : s \in {t \in shorter : Len(t) = n - 1}, x \in S}

Range(s) == {s[i] : i \in 1 .. Len(s)}

(***************************************************************************)
(* petgraph: neighbors_directed(a, dir) walks a's edge list for that       *)
(* direction, most recently inserted edge first.                           *)
(***************************************************************************)
RECURSIVE NeighborsFrom(_, _, _, _)
NeighborsFrom(g, i, a, dir) ==
    IF i = 0 THEN <<>>
    ELSE LET e == g.edges[i]
             hit == IF dir = "Outgoing" THEN e[1] = a ELSE e[2] = a
             other == IF dir = "Outgoing" THEN e[2] ELSE e[1]
         IN  IF hit THEN <<other>> \o NeighborsFrom(g, i - 1, a, dir)
             ELSE NeighborsFrom(g, i - 1, a, dir)

neighbors_directed(g, a, dir) == NeighborsFrom(g, Len(g.edges), a, dir)

\* Vec::insert(index, element): shifts every element after index to the right
VecInsert(v, index, element) ==
    SubSeq(v, 1, index) \o <<element>> \o SubSeq(v, index + 1, Len(v))

\* Vec indexing v[index] with a 0-based index
VecAt(v, index) == v[index + 1]

StackItem(node_idx, depth) == [node_idx |-> node_idx, depth |-> depth]

\* line 50: self.seen_nodes.read()[item.node_idx.index()]
IsSeen(seen, item) == VecAt(seen, item.node_idx)

\* a next() that never records the node it pops
MarkSeenForgotten(seen, item) == seen

\* line 54: self.seen_nodes.write().insert(item.node_idx.index(), true)
MarkSeen(seen, item) == VecInsert(seen, item.node_idx, TRUE)

\* line 56: self.max_depth > 0 && item.depth >= self.max_depth
HitMaxDepth(maxd, item) == maxd > 0 /\ item.depth >= maxd

\* lines 61-69: the items pushed for item's neighbours
NeighborItems(g, dir, item) ==
    LET ns == neighbors_directed(g, item.node_idx, dir)
    IN  [i \in 1 .. Len(ns) |-> StackItem(ns[i], item.depth + 1)]

\* lines 54-70 on a popped, unseen item: the stack after the call
StackAfterVisit(g, dir, maxd, rest, item) ==
    IF HitMaxDepth(maxd, item) THEN rest
    ELSE rest \o NeighborItems(g, dir, item)

\* a constructor that starts from the default node index, not from its argument
NewExpansionDefaultNode(node_idx) ==
    [stack |-> <<StackItem(0, 0)>>, pc |-> "idle", item |-> StackItem(0, 0)]

\* DepthFirstExpansion::new
NewExpansion(node_idx) ==
    [stack |-> <<StackItem(node_idx, 0)>>, pc |-> "idle", item |-> StackItem(0, 0)]

\* line 39: vec![false; graph.node_count()]
NewSeen(g) == [i \in 1 .. g.node_count |-> FALSE]

Top(stack) == stack[Len(stack)]
Rest(stack) == SubSeq(stack, 1, Len(stack) - 1)

(***************************************************************************)
(* The traversal as a function: the set of nodes yielded by draining the   *)
(* iterator (a sequential collect of DepthFirstExpansion).                 *)
(***************************************************************************)
RECURSIVE Drain(_, _, _, _, _, _)
Drain(g, dir, maxd, stack, seen, out) ==
    IF stack = <<>> THEN out
    ELSE LET item == Top(stack)
         IN  IF IsSeen(seen, item)
             THEN Drain(g, dir, maxd, Rest(stack), seen, out \cup {item.node_idx})
             ELSE Drain(g, dir, maxd,
                        StackAfterVisit(g, dir, maxd, Rest(stack), item),
                        MarkSeen(seen, item),
                        out \cup {item.node_idx})

Collect(g, dir, maxd, node_idx) ==
    Drain(g, dir, maxd, NewExpansion(node_idx).stack, NewSeen(g), {})

(***************************************************************************)
(* Paths.  A path is the sequence of its components (Path::components);    *)
(* a component is the sequence of the pieces of its name between dots, so  *)
(* "index.d.ts" is <<"index", "d", "ts">> and ".d.ts" is <<"", "d", "ts">>. *)
(* The root directory is the component <<"/">>.                            *)
(***************************************************************************)
RootDir == <<"/">>

\* Path::file_name, for a path that ends in a normal component
file_name(path) == path[Len(path)]

\* whether a file name splits into a stem and an extension: it has a dot
\* that is not its first character
HasExtension(name) == Len(name) > 1 /\ ~(Len(name) = 2 /\ name[1] = "")

\* Path::file_stem
file_stem(path) ==
    LET name == file_name(path)
    IN  IF HasExtension(name) THEN SubSeq(name, 1, Len(name) - 1) ELSE name

\* Path::extension: {} (None) or {extension}
extension(path) ==
    LET name == file_name(path)
    IN  IF HasExtension(name) THEN {name[Len(name)]} ELSE {}

\* Path::with_extension("")
with_extension_empty(path) ==
    IF path = <<>> \/ file_name(path) = RootDir THEN path
    ELSE SubSeq(path, 1, Len(path) - 1) \o <<file_stem(path)>>

\* Path::parent, for a path that ends in a normal component
parent(path) == SubSeq(path, 1, Len(path) - 1)

\* Path::ends_with(child): child's components are the last components of path
ends_with(path, child) ==
    /\ Len(child) <= Len(path)
    /\ SubSeq(path, Len(path) - Len(child) + 1, Len(path)) = child

\* Path::starts_with(base): base's components are the first components of path
starts_with(path, base) ==
    /\ Len(base) <= Len(path)
    /\ SubSeq(path, 1, Len(base)) = base

\* Path::strip_prefix(base): {} (Err) or {the rest of the path}
strip_prefix(path, base) ==
    IF starts_with(path, base) THEN {SubSeq(path, Len(base) + 1, Len(path))} ELSE {}

\* file_system.rs: is_declaration_file
is_declaration_file(path) ==
    \/ ends_with(path, <<<<"", "d", "ts">>>>)
    \/ ends_with(path, <<<<"", "d", "mts">>>>)
    \/ ends_with(path, <<<<"", "d", "cts">>>>)

\* get_path_without_extension
get_path_without_extension(path) ==
    IF is_declaration_file(path)
    THEN with_extension_empty(with_extension_empty(path))
    ELSE with_extension_empty(path)

\* get_extension_precedence
get_extension_precedence(path) ==
    LET ext == CHOOSE e \in extension(path) : TRUE
        ext2 == IF is_declaration_file(path)
                THEN (IF ext = "ts" THEN "d.ts"
                      ELSE IF ext = "cts" THEN "d.cts"
                      ELSE IF ext = "mts" THEN "d.mts"
                      ELSE ext)
                ELSE ext
    IN  CASE ext2 = "ts" -> 11
          [] ext2 = "tsx" -> 10
          [] ext2 = "d.ts" -> 9
          [] ext2 = "js" -> 8
          [] ext2 = "jsx" -> 7
          [] ext2 = "cts" -> 6
          [] ext2 = "d.cts" -> 5
          [] ext2 = "cjs" -> 4
          [] ext2 = "mts" -> 3
          [] ext2 = "d.mts" -> 2
          [] ext2 = "mjs" -> 1
          [] OTHER -> 0

IndexFileName == <<"index">>

CurDir == <<".">>
ParentDir == <<"..">>

\* Component::Normal
IsNormal(component) == component \notin {RootDir, CurDir, ParentDir}

(***************************************************************************)
(* DependencyGraphStore.  The operations are functions of a store record  *)
(* st = [path_id_to_path, path_to_path_id, module_id_to_module,            *)
(* path_id_to_module, hist] and return the store they leave with the value *)
(* they return; each is one call run without interruption.                 *)
(***************************************************************************)
\* HashMap::insert
MapInsert(map, key, value) == (key :> value) @@ map

\* the id of the last path already stored, not of the slot the push fills
NewPathIdBeforePush(paths) == IF Len(paths) = 0 THEN 0 ELSE Len(paths) - 1

\* line 109: let new_id = paths.len()
NewPathId(paths) == Len(paths)

\* a get_id_for_path that forgets to record the id it hands out
InsertPathIdDropped(map, path, id) == map

\* an insert that records the id after the one the push filled
InsertPathIdAhead(map, path, id) == MapInsert(map, path, id + 1)

\* line 112: self.path_to_path_id.write().insert(path.to_owned(), new_id)
InsertPathId(map, path, id) == MapInsert(map, path, id)

\* the id of the last module already stored, not of the slot the push fills
NewModuleIdReused(modules) == IF Len(modules) = 0 THEN 0 ELSE Len(modules) - 1

\* line 306: let new_id = modules.len()
NewModuleId(modules) == Len(modules)

\* lines 104-106: the path is in path_to_path_id; its id is returned
get_id_for_path_hit(st, path) ==
    LET id == st.path_to_path_id[path]
    IN  [st |-> [st EXCEPT !.hist.ret = @ \cup {<<path, id>>}], id |-> id]

\* lines 108-114: a new id is made under the write lock of path_id_to_path
get_id_for_path_miss(st, path) ==
    LET new_id == NewPathId(st.path_id_to_path)
    IN  [st |-> [st EXCEPT !.path_id_to_path = Append(@, path),
                           !.path_to_path_id = InsertPathId(@, path, new_id),
                           !.hist.path_ids = Append(@, new_id),
                           !.hist.ret = @ \cup {<<path, new_id>>}],
         id |-> new_id]

\* lines 103-115, run without interruption
get_id_for_path(st, path) ==
    IF path \in DOMAIN st.path_to_path_id
    THEN get_id_for_path_hit(st, path)
    ELSE get_id_for_path_miss(st, path)

\* lines 117-119
get_path_for_id(st, id) == VecAt(st.path_id_to_path, id)

\* lines 286-288
get_path_for_module(st, module) == get_path_for_id(st, module.path_id)

\* lines 95-101: {} (None) or {id}
try_get_id_for_path(st, path) ==
    IF path \in DOMAIN st.path_to_path_id THEN {st.path_to_path_id[path]} ELSE {}

\* lines 290-296: {} (None) or {module}
try_get_module_for_path(st, path) ==
    {st.path_id_to_module[id] :
        id \in {i \in try_get_id_for_path(st, path) : i \in DOMAIN st.path_id_to_module}}

\* lines 305-317: a new module is made under the write lock of
\* module_id_to_module
get_module_for_path_miss(st, path_id) ==
    LET new_id == NewModuleId(st.module_id_to_module)
        modules == Append(st.module_id_to_module,
                          [path_id |-> path_id, module_id |-> new_id])
        module == VecAt(modules, new_id)
    IN  [st |-> [st EXCEPT !.module_id_to_module = modules,
                           !.path_id_to_module = MapInsert(@, path_id, module),
                           !.hist.module_ids = Append(@, new_id)],
         module |-> module]

\* lines 298-318, run without interruption
get_module_for_path(st, path) ==
    LET r == get_id_for_path(st, path)
        path_id == r.id
    IN  IF path_id \in DOMAIN r.st.path_id_to_module
        THEN [st |-> r.st, module |-> r.st.path_id_to_module[path_id]]
        ELSE get_module_for_path_miss(r.st, path_id)

\* lines 244-274: {} (a panic) or {the package root}
module_name(path) ==
    IF path = <<>> \/ ~IsNormal(path[1]) THEN {}
    ELSE IF starts_with(path, <<<<"@">>>>)
         THEN (IF Len(path) >= 2 /\ IsNormal(path[2]) THEN {<<path[1], path[2]>>} ELSE {})
         ELSE {<<path[1]>>}

\* lines 241-284, for a path whose package root can be taken
add_node_module(st, path) ==
    LET name == CHOOSE n \in module_name(path) : TRUE
        m == get_module_for_path(st, name)
        r == get_id_for_path(m.st, path)
    IN  [st |-> [r.st EXCEPT !.path_id_to_module = MapInsert(@, r.id, m.module)],
         module |-> m.module]

(***************************************************************************)
(* resolve_paths (lines 124-239).                                          *)
(***************************************************************************)
\* lines 141-170: the import names generated for the module at path
extra_paths(path, base) ==
    LET without_base ==
            IF base = {} THEN <<>>
            ELSE LET stripped == strip_prefix(path, CHOOSE b \in base : TRUE)
                 IN  IF stripped = {} THEN <<>> ELSE <<CHOOSE x \in stripped : TRUE>>
        index_parent ==
            IF file_stem(path) = IndexFileName THEN <<parent(path)>> ELSE <<>>
        first == without_base \o index_parent
    IN  first
          \o [i \in 1 .. Len(first) |-> get_path_without_extension(first[i])]
          \o <<get_path_without_extension(path)>>

RECURSIVE AllExtraPaths(_, _, _, _)
\* lines 134-172: the <<name, module>> pairs of the modules lo .. hi of
\* module_id_to_module, in module order
AllExtraPaths(st, base, lo, hi) ==
    IF lo > hi THEN <<>>
    ELSE LET module == st.module_id_to_module[lo]
             names == extra_paths(get_path_for_id(st, module.path_id), base)
         IN  [k \in 1 .. Len(names) |-> <<names[k], module>>]
               \o AllExtraPaths(st, base, lo + 1, hi)

\* lines 176-183: the fold closure
fold_op(acc, pr) ==
    IF pr[1] \in DOMAIN acc
    THEN [acc EXCEPT ![pr[1]] = Append(@, pr[2])]
    ELSE MapInsert(acc, pr[1], <<pr[2]>>)

RECURSIVE Fold(_, _)
\* lines 174-184: the fold of one piece of the iterator, over its first n pairs
Fold(pairs, n) ==
    IF n = 0 THEN <<>> ELSE fold_op(Fold(pairs, n - 1), pairs[n])

\* a merge that puts the right-hand lists first
reduce_op_swapped(acc, other) ==
    [name \in DOMAIN acc \cup DOMAIN other |->
        (IF name \in DOMAIN other THEN other[name] ELSE <<>>)
          \o (IF name \in DOMAIN acc THEN acc[name] ELSE <<>>)]

\* lines 187-196: the reduce closure, acc the left-hand map
reduce_op(acc, other) ==
    [name \in DOMAIN acc \cup DOMAIN other |->
        (IF name \in DOMAIN acc THEN acc[name] ELSE <<>>)
          \o (IF name \in DOMAIN other THEN other[name] ELSE <<>>)]

RECURSIVE Grouped(_, _, _, _)
\* lines 173-197: every {name -> modules} map fold / reduce can give for the
\* modules lo .. hi: they are folded as one piece, or split in two runs
\* whose maps are reduced, left with right
Grouped(st, base, lo, hi) ==
    LET pairs == AllExtraPaths(st, base, lo, hi)
    IN  {Fold(pairs, Len(pairs))}
          \cup UNION {{reduce_op(l, r) : l \in Grouped(st, base, lo, k),
                                         r \in Grouped(st, base, k + 1, hi)} :
                         k \in lo .. (hi - 1)}

\* a comparator that looks at the extensions alone
compare_modules_by_extension(st, a, b) ==
    LET pa == get_extension_precedence(get_path_for_module(st, a))
        pb == get_extension_precedence(get_path_for_module(st, b))
    IN  IF pb < pa THEN "Less" ELSE IF pb > pa THEN "Greater" ELSE "Equal"

\* lines 209-227: the comparator given to sort_by
compare_modules(st, a, b) ==
    LET a_path == get_path_for_module(st, a)
        b_path == get_path_for_module(st, b)
    IN  IF file_stem(a_path) = IndexFileName /\ file_stem(b_path) # IndexFileName
        THEN "Greater"
        ELSE IF file_stem(a_path) # IndexFileName /\ file_stem(b_path) = IndexFileName
        THEN "Less"
        ELSE LET pa == get_extension_precedence(a_path)
                 pb == get_extension_precedence(b_path)
             IN  IF pb < pa THEN "Less" ELSE IF pb > pa THEN "Greater" ELSE "Equal"

RECURSIVE InsertSorted(_, _, _, _)
\* x placed before the first element of sorted[i ..] it is Less than
InsertSorted(st, sorted, x, i) ==
    IF i > Len(sorted) THEN Append(sorted, x)
    ELSE IF compare_modules(st, x, sorted[i]) = "Less"
         THEN SubSeq(sorted, 1, i - 1) \o <<x>> \o SubSeq(sorted, i, Len(sorted))
         ELSE InsertSorted(st, sorted, x, i + 1)

RECURSIVE sort_by(_, _, _)
\* slice::sort_by, a stable sort: the first i elements of list, sorted
sort_by(st, list, i) ==
    IF i = 0 THEN <<>>
    ELSE InsertSorted(st, sort_by(st, list, i - 1), list[i], 1)

\* lines 201-232: the module kept for a name
best_module(st, modules) ==
    IF Len(modules) = 1 THEN modules[1]
    ELSE sort_by(st, modules, Len(modules))[1]

\* lines 198-232: the <<name, module>> pairs handed to the final for_each
resolved_paths(st, grouped) ==
    {<<name, best_module(st, grouped[name])>> : name \in DOMAIN grouped}

(***************************************************************************)
(* The store as state.                                                     *)
(***************************************************************************)
Store ==
    [path_id_to_path |-> path_id_to_path,
     path_to_path_id |-> path_to_path_id,
     module_id_to_module |-> module_id_to_module,
     path_id_to_module |-> path_id_to_module,
     hist |-> hist]

SetStore(st) ==
    /\ path_id_to_path' = st.path_id_to_path
    /\ path_to_path_id' = st.path_to_path_id
    /\ module_id_to_module' = st.module_id_to_module
    /\ path_id_to_module' = st.path_id_to_module
    /\ hist' = st.hist

\* the files, import names and tsconfigs the store is tried on
File_a_ts == <<RootDir, <<"r">>, <<"a", "ts">>>>
File_a_js == <<RootDir, <<"r">>, <<"a", "js">>>>
File_a_d_ts == <<RootDir, <<"r">>, <<"a", "d", "ts">>>>
File_b_ts == <<RootDir, <<"r">>, <<"b", "ts">>>>
File_b_index_ts == <<RootDir, <<"r">>, <<"b">>, <<"index", "ts">>>>
Alias_a == <<RootDir, <<"r">>, <<"a">>>>
Dir_b == <<RootDir, <<"r">>, <<"b">>>>
Import_lodash == <<<<"lodash">>>>
Import_lodash_map == <<<<"lodash">>, <<"map">>>>
Import_lodash_fp == <<<<"lodash">>, <<"fp">>>>
Import_scope_pkg_sub == <<<<"@scope">>, <<"pkg">>, <<"sub">>>>
Import_scope_other_sub == <<<<"@scope">>, <<"other">>, <<"sub">>>>

FileUniverse == {File_a_ts, File_a_js, File_a_d_ts, File_b_ts, File_b_index_ts}
BaseUrls == {{}, {Dir_b}}
QueryPaths == {Alias_a, Import_lodash}
ImportPaths == {Import_lodash_map, Import_lodash_fp, Import_scope_pkg_sub}

IdSeq(n) == [i \in 1 .. n |-> i - 1]

\* lines 52-56: collect::<HashMap>; of a path listed twice the later pair is
\* kept, as with a sequential iterator
CollectedIds(paths) ==
    [p \in Range(paths) |->
        (CHOOSE i \in 1 .. Len(paths) :
            paths[i] = p /\ \A j \in (i + 1) .. Len(paths) : paths[j] # p) - 1]

\* lines 51-85: the store built by new() before it calls resolve_paths
NewStore(paths, ids) ==
    [path_id_to_path |-> paths,
     path_to_path_id |-> ids,
     module_id_to_module |-> [i \in 1 .. Len(paths) |-> [path_id |-> i - 1, module_id |-> i - 1]],
     path_id_to_module |-> [id \in 0 .. (Len(paths) - 1) |-> [path_id |-> id, module_id |-> id]],
     hist |-> [path_ids |-> IdSeq(Len(paths)), module_ids |-> IdSeq(Len(paths)),
               ret |-> {}, calls |-> <<>>]]

StoreInitWith(paths, base, ids) ==
    LET st == NewStore(paths, ids)
    IN  /\ files = paths
        /\ base_url = base
        /\ path_id_to_path = st.path_id_to_path
        /\ path_to_path_id = st.path_to_path_id
        /\ module_id_to_module = st.module_id_to_module
        /\ path_id_to_module = st.path_id_to_module
        /\ hist = st.hist
        /\ \E grouped \in Grouped(st, base, 1, Len(st.module_id_to_module)) :
              pending = resolved_paths(st, grouped)

StoreIdle ==
    /\ files = <<>>
    /\ base_url = {}
    /\ path_id_to_path = <<>>
    /\ path_to_path_id = <<>>
    /\ module_id_to_module = <<>>
    /\ path_id_to_module = <<>>
    /\ pending = {}
    /\ threads = <<>>
    /\ hist = [path_ids |-> <<>>, module_ids |-> <<>>, ret |-> {}, calls |-> <<>>]

DfsIdle ==
    /\ graph = [node_count |-> 0, edges |-> <<>>]
    /\ direction = "Outgoing"
    /\ max_depth = 0
    /\ seed = 0
    /\ forks = <<>>
    /\ seen_nodes = <<>>
    /\ yielded = {}

StoreInit ==
    /\ \E paths \in SeqsUpTo(FileUniverse, MaxFiles), base \in BaseUrls :
          StoreInitWith(paths, base, CollectedIds(paths))
    /\ threads = <<>>
    /\ DfsIdle
    /\ OthersIdle
    /\ ResolveIdle

StoreFrame ==
    /\ UNCHANGED <<files, base_url>>
    /\ UNCHANGED dfsVars
    /\ UNCHANGED resolveVars
    /\ UNCHANGED otherVars

\* lines 233-238: the for_each of resolve_paths commits one pair
CommitAlias(pr) ==
    /\ pr \in pending
    /\ LET r == get_id_for_path(Store, pr[1])
       IN  SetStore([r.st EXCEPT !.path_id_to_module = MapInsert(@, r.id, pr[2])])
    /\ pending' = pending \ {pr}
    /\ UNCHANGED threads
    /\ StoreFrame

Constructed == pending = {}

CallGetIdForPath(path) ==
    /\ Constructed
    /\ Len(hist.calls) < MaxCalls
    /\ LET r == get_id_for_path(Store, path)
       IN  SetStore([r.st EXCEPT !.hist.calls = Append(@, <<"get_id_for_path", path, r.id>>)])
    /\ UNCHANGED <<pending, threads>>
    /\ StoreFrame

CallAddNodeModule(path) ==
    /\ Constructed
    /\ Len(hist.calls) < MaxCalls
    /\ module_name(path) # {}
    /\ LET r == add_node_module(Store, path)
       IN  SetStore([r.st EXCEPT !.hist.calls =
                        Append(@, <<"add_node_module", path, r.module.module_id>>)])
    /\ UNCHANGED <<pending, threads>>
    /\ StoreFrame

StoreNext ==
    \/ \E pr \in pending : CommitAlias(pr)
    \/ \E path \in QueryPaths : CallGetIdForPath(path)
    \/ \E path \in ImportPaths : CallAddNodeModule(path)

SpecStore == StoreInit /\ [][StoreNext]_vars

\* imports of two packages of one scope and of an unscoped package
ScopedImportPaths == {Import_scope_pkg_sub, Import_scope_other_sub, Import_lodash_map}

\* the constructed store called with add_node_module alone
ExternalNext ==
    \/ \E pr \in pending : CommitAlias(pr)
    \/ \E path \in ScopedImportPaths : CallAddNodeModule(path)

SpecExternal == StoreInit /\ [][ExternalNext]_vars

\* construction alone, over files that compete for import names: the same
\* stem with several extensions, a sibling file beside a directory index,
\* declaration files
File_b_js == <<RootDir, <<"r">>, <<"b", "js">>>>
File_a_d_tsx == <<RootDir, <<"r">>, <<"a", "d", "tsx">>>>
\* a file whose extension-less name is the full name of another file
File_a_ts_js == <<RootDir, <<"r">>, <<"a", "ts", "js">>>>
AliasFileUniverse ==
    {File_a_ts, File_a_js, File_a_d_ts, File_a_d_tsx, File_a_ts_js, File_b_js,
     File_b_index_ts}

AliasInit ==
    /\ \E paths \in SeqsUpTo(AliasFileUniverse, MaxFiles), base \in BaseUrls :
          StoreInitWith(paths, base, CollectedIds(paths))
    /\ threads = <<>>
    /\ DfsIdle
    /\ OthersIdle
    /\ ResolveIdle

AliasNext == \E pr \in pending : CommitAlias(pr)

SpecAlias == AliasInit /\ [][AliasNext]_vars

(***************************************************************************)
(* The constructed store shared by threads.  A call is cut where it holds  *)
(* no lock: get_id_for_path between its lookup (the read guard of line 104 *)
(* is dropped at line 106) and its write (lines 108-114, under the write   *)
(* lock of path_id_to_path); get_module_for_path between its lookup        *)
(* (lines 301-303) and its write (lines 305-317, under the write lock of   *)
(* module_id_to_module).                                                   *)
(***************************************************************************)
\* two threads are what a race takes
Threads == {1, 2}

\* the file lists the shared store is built from
ParFileLists == {<<>>, <<File_a_ts>>, <<File_b_index_ts, File_b_ts>>}

IdleThread ==
    [pc |-> "idle", op |-> "none", path |-> <<>>, phase |-> "none",
     path_id |-> 0, module |-> {}]

ParInit ==
    /\ \E paths \in ParFileLists, base \in BaseUrls :
          StoreInitWith(paths, base, CollectedIds(paths))
    /\ threads = [t \in Threads |-> IdleThread]
    /\ DfsIdle
    /\ OthersIdle
    /\ ResolveIdle

\* the calls begun so far
Started == Len(hist.calls) + Cardinality({t \in Threads : threads[t].pc # "idle"})

\* the path the running get_id_for_path of a thread was given: the package
\* root (line 275) or the path of the call (lines 103, 278)
Target(th) ==
    IF th.phase = "root" THEN CHOOSE n \in module_name(th.path) : TRUE ELSE th.path

BeginGetIdForPath(t, path) ==
    /\ Constructed
    /\ threads[t].pc = "idle"
    /\ Started < MaxCalls
    /\ threads' = [threads EXCEPT ![t] = [IdleThread EXCEPT !.pc = "id_read",
                        !.op = "get_id_for_path", !.path = path, !.phase = "only"]]
    /\ UNCHANGED <<path_id_to_path, path_to_path_id, module_id_to_module,
                   path_id_to_module, pending, hist>>
    /\ StoreFrame

\* lines 241-275: the package root is taken and get_module_for_path entered
BeginAddNodeModule(t, path) ==
    /\ Constructed
    /\ threads[t].pc = "idle"
    /\ Started < MaxCalls
    /\ module_name(path) # {}
    /\ threads' = [threads EXCEPT ![t] = [IdleThread EXCEPT !.pc = "id_read",
                        !.op = "add_node_module", !.path = path, !.phase = "root"]]
    /\ UNCHANGED <<path_id_to_path, path_to_path_id, module_id_to_module,
                   path_id_to_module, pending, hist>>
    /\ StoreFrame

\* get_id_for_path has returned id to thread t, leaving the store as st
AfterId(t, st, id) ==
    LET th == threads[t]
    IN  IF th.phase = "only"
        THEN /\ SetStore([st EXCEPT !.hist.calls = Append(@, <<th.op, th.path, id>>)])
             /\ threads' = [threads EXCEPT ![t] = IdleThread]
        ELSE /\ SetStore(st)
             /\ threads' = [threads EXCEPT ![t].path_id = id,
                                ![t].pc = IF th.phase = "root" THEN "mod_read" ELSE "insert"]

\* lines 104-106: the lookup of get_id_for_path
IdRead(t) ==
    /\ threads[t].pc = "id_read"
    /\ LET p == Target(threads[t])
       IN  IF try_get_id_for_path(Store, p) # {}
           THEN LET r == get_id_for_path_hit(Store, p) IN AfterId(t, r.st, r.id)
           ELSE /\ threads' = [threads EXCEPT ![t].pc = "id_write"]
                /\ UNCHANGED <<path_id_to_path, path_to_path_id, module_id_to_module,
                               path_id_to_module, hist>>
    /\ UNCHANGED pending
    /\ StoreFrame

\* lines 108-114: the write of get_id_for_path, made without a second lookup
IdWrite(t) ==
    /\ threads[t].pc = "id_write"
    /\ LET r == get_id_for_path_miss(Store, Target(threads[t]))
       IN  AfterId(t, r.st, r.id)
    /\ UNCHANGED pending
    /\ StoreFrame

\* lines 301-303: the lookup of get_module_for_path
ModRead(t) ==
    /\ threads[t].pc = "mod_read"
    /\ LET id == threads[t].path_id
       IN  threads' = IF id \in DOMAIN path_id_to_module
                      THEN [threads EXCEPT ![t].module = {path_id_to_module[id]},
                                           ![t].phase = "deep", ![t].pc = "id_read"]
                      ELSE [threads EXCEPT ![t].pc = "mod_write"]
    /\ UNCHANGED <<path_id_to_path, path_to_path_id, module_id_to_module,
                   path_id_to_module, pending, hist>>
    /\ StoreFrame

\* lines 305-317: the write of get_module_for_path, made without a second lookup
ModWrite(t) ==
    /\ threads[t].pc = "mod_write"
    /\ LET r == get_module_for_path_miss(Store, threads[t].path_id)
       IN  /\ SetStore(r.st)
           /\ threads' = [threads EXCEPT ![t].module = {r.module},
                                         ![t].phase = "deep", ![t].pc = "id_read"]
    /\ UNCHANGED pending
    /\ StoreFrame

\* lines 279-283: the deep import path is mapped to the module, which is returned
DeepInsert(t) ==
    /\ threads[t].pc = "insert"
    /\ LET th == threads[t]
           module == CHOOSE m \in th.module : TRUE
       IN  SetStore([Store EXCEPT
                        !.path_id_to_module = MapInsert(@, th.path_id, module),
                        !.hist.calls = Append(@, <<th.op, th.path, module.module_id>>)])
    /\ threads' = [threads EXCEPT ![t] = IdleThread]
    /\ UNCHANGED pending
    /\ StoreFrame

ParStoreNext ==
    \/ \E pr \in pending : CommitAlias(pr)
    \/ \E t \in Threads, path \in QueryPaths : BeginGetIdForPath(t, path)
    \/ \E t \in Threads, path \in ImportPaths : BeginAddNodeModule(t, path)
    \/ \E t \in Threads : IdRead(t)
    \/ \E t \in Threads : IdWrite(t)
    \/ \E t \in Threads : ModRead(t)
    \/ \E t \in Threads : ModWrite(t)
    \/ \E t \in Threads : DeepInsert(t)

SpecStorePar == ParInit /\ [][ParStoreNext]_vars

(***************************************************************************)
(* The four RwLocks of the store (parking_lot).  guards[t] is the set of   *)
(* guards thread t holds: <<lock, "read">>, <<lock, "write">>, or          *)
(* <<lock, "wait">> when t has set the writer bit of the lock and is       *)
(* parked until its readers have left.  read() waits while the writer bit  *)
(* is set; write() waits while it is set by another thread or a reader is  *)
(* left.  The threads are cut at every acquisition made while a guard is   *)
(* held, and where no guard is held.                                       *)
(***************************************************************************)
Locks == {"path_id_to_path", "path_to_path_id", "module_id_to_module", "path_id_to_module"}

Readers(lock) == {u \in DOMAIN guards : <<lock, "read">> \in guards[u]}

WriterBit(lock) ==
    {u \in DOMAIN guards : <<lock, "write">> \in guards[u] \/ <<lock, "wait">> \in guards[u]}

\* RwLock::read returns
CanRead(t, lock) == WriterBit(lock) = {}

\* RwLock::write returns
CanWrite(t, lock) ==
    /\ WriterBit(lock) \subseteq {t}
    /\ <<lock, "write">> \notin guards[t]
    /\ Readers(lock) = {}

\* RwLock::write has set the writer bit and parks: readers are left
MustPark(t, lock) ==
    /\ WriterBit(lock) = {}
    /\ Readers(lock) # {}

\* a read guard bound to a name that lives to the end of the function
KeepTemporary(held, guard) == held

\* lines 104-106, 301-303: the guard of an if-let scrutinee is a temporary,
\* dropped at the end of the if-let
DropTemporary(held, guard) == held \ {guard}

\* the write guard t holds on lock, the writer bit it had set being cleared
WithWrite(held, lock) == (held \ {<<lock, "wait">>}) \cup {<<lock, "write">>}

\* the store is built from a file list without a base url
LockInit ==
    /\ \E paths \in ParFileLists : StoreInitWith(paths, {}, CollectedIds(paths))
    /\ threads = [t \in Threads |-> IdleThread]
    /\ guards = [t \in Threads |-> {}]
    /\ visitor = [errors |-> <<>>, dependencies |-> <<>>]
    /\ visited = <<>>
    /\ repl = [pc |-> "none", file_input |-> <<>>]
    /\ console = <<>>
    /\ DfsIdle
    /\ ResolveIdle

LockFrame ==
    /\ UNCHANGED <<files, base_url, pending>>
    /\ UNCHANGED <<visitor, visited, repl, console>>
    /\ UNCHANGED dfsVars
    /\ UNCHANGED resolveVars

StoreUnchanged ==
    UNCHANGED <<path_id_to_path, path_to_path_id, module_id_to_module,
                path_id_to_module, hist>>

\* a call of get_id_for_path or add_node_module begins
LockedBegin(t) ==
    /\ \/ \E path \in QueryPaths : BeginGetIdForPath(t, path)
       \/ \E path \in ImportPaths : BeginAddNodeModule(t, path)
    /\ guards[t] = {}

\* line 290: try_get_module_for_path is entered
BeginTryGetModuleForPath(t, path) ==
    /\ Constructed
    /\ threads[t].pc = "idle"
    /\ Started < MaxCalls
    /\ threads' = [threads EXCEPT ![t] = [IdleThread EXCEPT !.pc = "try_read",
                        !.op = "try_get_module_for_path", !.path = path]]
    /\ UNCHANGED guards
    /\ StoreUnchanged
    /\ LockFrame

\* line 286: get_path_for_module is entered with a module of the store
BeginGetPathForModule(t, module) ==
    /\ Constructed
    /\ threads[t].pc = "idle"
    /\ Started < MaxCalls
    /\ threads' = [threads EXCEPT ![t] = [IdleThread EXCEPT !.pc = "path_read",
                        !.op = "get_path_for_module", !.module = {module}]]
    /\ UNCHANGED guards
    /\ StoreUnchanged
    /\ LockFrame

\* lines 104-106: the lookup of get_id_for_path under the read guard of
\* path_to_path_id
LockedIdRead(t) ==
    /\ threads[t].pc = "id_read"
    /\ CanRead(t, "path_to_path_id")
    /\ LET p == Target(threads[t])
           guard == <<"path_to_path_id", "read">>
       IN  IF try_get_id_for_path(Store, p) # {}
           THEN /\ LET r == get_id_for_path_hit(Store, p) IN AfterId(t, r.st, r.id)
                /\ UNCHANGED guards
           ELSE /\ threads' = [threads EXCEPT ![t].pc = "id_write"]
                /\ guards' = [guards EXCEPT ![t] = DropTemporary(@ \cup {guard}, guard)]
                /\ StoreUnchanged
    /\ LockFrame

\* line 108: self.path_id_to_path.write()
LockPaths(t) ==
    /\ threads[t].pc = "id_write"
    /\ CanWrite(t, "path_id_to_path")
    /\ threads' = [threads EXCEPT ![t].pc = "id_insert"]
    /\ guards' = [guards EXCEPT ![t] = WithWrite(@, "path_id_to_path")]
    /\ StoreUnchanged
    /\ LockFrame

\* lines 109-114: the push, the insert under the write guard of
\* path_to_path_id, and the return that drops both guards
LockedIdWrite(t) ==
    /\ threads[t].pc = "id_insert"
    /\ CanWrite(t, "path_to_path_id")
    /\ LET r == get_id_for_path_miss(Store, Target(threads[t]))
       IN  AfterId(t, r.st, r.id)
    /\ guards' = [guards EXCEPT ![t] = @ \ {<<"path_id_to_path", "write">>,
                                             <<"path_to_path_id", "wait">>}]
    /\ LockFrame

\* lines 301-303: the lookup of get_module_for_path under the read guard of
\* path_id_to_module
LockedModRead(t) ==
    /\ threads[t].pc = "mod_read"
    /\ CanRead(t, "path_id_to_module")
    /\ LET id == threads[t].path_id
           guard == <<"path_id_to_module", "read">>
       IN  IF id \in DOMAIN path_id_to_module
           THEN /\ threads' = [threads EXCEPT ![t].module = {path_id_to_module[id]},
                                              ![t].phase = "deep", ![t].pc = "id_read"]
                /\ UNCHANGED guards
           ELSE /\ threads' = [threads EXCEPT ![t].pc = "mod_write"]
                /\ guards' = [guards EXCEPT ![t] = DropTemporary(@ \cup {guard}, guard)]
    /\ StoreUnchanged
    /\ LockFrame

\* line 305: self.module_id_to_module.write()
LockModules(t) ==
    /\ threads[t].pc = "mod_write"
    /\ CanWrite(t, "module_id_to_module")
    /\ threads' = [threads EXCEPT ![t].pc = "mod_insert"]
    /\ guards' = [guards EXCEPT ![t] = WithWrite(@, "module_id_to_module")]
    /\ StoreUnchanged
    /\ LockFrame

\* lines 306-317: the push, the insert under the write guard of
\* path_id_to_module, and the return that drops both guards
LockedModWrite(t) ==
    /\ threads[t].pc = "mod_insert"
    /\ CanWrite(t, "path_id_to_module")
    /\ LET r == get_module_for_path_miss(Store, threads[t].path_id)
       IN  /\ SetStore(r.st)
           /\ threads' = [threads EXCEPT ![t].module = {r.module},
                                         ![t].phase = "deep", ![t].pc = "id_read"]
    /\ guards' = [guards EXCEPT ![t] = @ \ {<<"module_id_to_module", "write">>,
                                             <<"path_id_to_module", "wait">>}]
    /\ LockFrame

\* lines 279-283: the insert of add_node_module under the write guard of
\* path_id_to_module
LockedDeepInsert(t) ==
    /\ threads[t].pc = "insert"
    /\ CanWrite(t, "path_id_to_module")
    /\ LET th == threads[t]
           module == CHOOSE m \in th.module : TRUE
       IN  SetStore([Store EXCEPT
                        !.path_id_to_module = MapInsert(@, th.path_id, module),
                        !.hist.calls = Append(@, <<th.op, th.path, module.module_id>>)])
    /\ threads' = [threads EXCEPT ![t] = IdleThread]
    /\ guards' = [guards EXCEPT ![t] = @ \ {<<"path_id_to_module", "wait">>}]
    /\ LockFrame

\* the lock whose write() thread th calls next, if it is at one
NextWrite(th) ==
    CASE th.pc = "id_write" -> {"path_id_to_path"}
      [] th.pc = "id_insert" -> {"path_to_path_id"}
      [] th.pc = "mod_write" -> {"module_id_to_module"}
      [] th.pc \in {"mod_insert", "insert"} -> {"path_id_to_module"}
      [] OTHER -> {}

\* the lock whose read() thread th calls next, if it is at one
NextRead(th) ==
    CASE th.pc \in {"id_read", "try_id"} -> {"path_to_path_id"}
      [] th.pc \in {"mod_read", "try_read"} -> {"path_id_to_module"}
      [] th.pc = "path_read" -> {"path_id_to_path"}
      [] OTHER -> {}

\* write() finds readers: it sets the writer bit and parks
Park(t) ==
    /\ \E lock \in NextWrite(threads[t]) :
          /\ MustPark(t, lock)
          /\ guards' = [guards EXCEPT ![t] = @ \cup {<<lock, "wait">>}]
    /\ UNCHANGED threads
    /\ StoreUnchanged
    /\ LockFrame

\* lines 291-293: self.path_id_to_module.read(), held while the argument of
\* get is evaluated
TryRead(t) ==
    /\ threads[t].pc = "try_read"
    /\ CanRead(t, "path_id_to_module")
    /\ threads' = [threads EXCEPT ![t].pc = "try_id"]
    /\ guards' = [guards EXCEPT ![t] = @ \cup {<<"path_id_to_module", "read">>}]
    /\ StoreUnchanged
    /\ LockFrame

\* lines 294-295: try_get_id_for_path under the read guard of
\* path_to_path_id, then the get and the return that drops the guard
TryGet(t) ==
    /\ threads[t].pc = "try_id"
    /\ CanRead(t, "path_to_path_id")
    /\ LET th == threads[t]
           found == try_get_module_for_path(Store, th.path)
       IN  hist' = [hist EXCEPT !.calls = Append(@, <<th.op, th.path, found>>)]
    /\ threads' = [threads EXCEPT ![t] = IdleThread]
    /\ guards' = [guards EXCEPT ![t] = @ \ {<<"path_id_to_module", "read">>}]
    /\ UNCHANGED <<path_id_to_path, path_to_path_id, module_id_to_module, path_id_to_module>>
    /\ LockFrame

\* lines 286-288, 117-119: the index under the read guard of path_id_to_path
PathRead(t) ==
    /\ threads[t].pc = "path_read"
    /\ CanRead(t, "path_id_to_path")
    /\ LET th == threads[t]
           module == CHOOSE m \in th.module : TRUE
       IN  hist' = [hist EXCEPT !.calls =
                        Append(@, <<th.op, get_path_for_module(Store, module), module.module_id>>)]
    /\ threads' = [threads EXCEPT ![t] = IdleThread]
    /\ UNCHANGED guards
    /\ UNCHANGED <<path_id_to_path, path_to_path_id, module_id_to_module, path_id_to_module>>
    /\ LockFrame

\* a step of a call thread t is in
LockStep(t) ==
    \/ LockedIdRead(t)
    \/ LockPaths(t)
    \/ LockedIdWrite(t)
    \/ LockedModRead(t)
    \/ LockModules(t)
    \/ LockedModWrite(t)
    \/ LockedDeepInsert(t)
    \/ Park(t)
    \/ TryRead(t)
    \/ TryGet(t)
    \/ PathRead(t)

LockNext ==
    \/ \E pr \in pending : CommitAlias(pr)
    \/ \E t \in Threads : LockedBegin(t)
    \/ \E t \in Threads, path \in QueryPaths : BeginTryGetModuleForPath(t, path)
    \/ \E t \in Threads, module \in Range(module_id_to_module) : BeginGetPathForModule(t, module)
    \/ \E t \in Threads : LockStep(t)

SpecLocks == LockInit /\ [][LockNext]_vars

\* every thread that can take a step of its call does take one
FairSpecLocks == SpecLocks /\ \A t \in Threads : WF_vars(LockStep(t))

(***************************************************************************)
(* DependencyGraph (dependency_graph.rs).  new() builds path_to_module_id_map; *)
(* resolve_imports runs its filter_map closure on every import of every    *)
(* owner in parallel.  A run of the closure is cut where it holds no lock: *)
(* after the lookups have all missed (line 188) and before it takes the    *)
(* lock of node_module_deps (line 224).                                    *)
(***************************************************************************)
\* lines 60-66: the copy of a file's path without its extension
NewAliasWithoutExtension(f) ==
    IF is_declaration_file(f)
    THEN with_extension_empty(with_extension_empty(f))
    ELSE with_extension_empty(f)

RECURSIVE NewPairs(_, _)
\* lines 52-74: the (path, id) pairs of the first n files, in iteration order
NewPairs(paths, n) ==
    IF n = 0 THEN <<>>
    ELSE NewPairs(paths, n - 1)
           \o << <<paths[n], n - 1>>, <<NewAliasWithoutExtension(paths[n]), n - 1>> >>

RECURSIVE CollectHashMap(_, _)
\* line 75: collect::<HashMap>, a later pair replacing an earlier one of its key
CollectHashMap(pairs, n) ==
    IF n = 0 THEN <<>>
    ELSE MapInsert(CollectHashMap(pairs, n - 1), pairs[n][1], pairs[n][2])

\* lines 45-78: DependencyGraph::new
NewPathToModuleIdMap(paths) ==
    LET pairs == NewPairs(paths, Len(paths))
    IN  CollectHashMap(pairs, Len(pairs))

\* line 88
current_module_id_max == Cardinality(DOMAIN path_to_module_id_map)

\* lines 120-137: the extensions of imports that are dropped
SkippedExtensions ==
    {"css", "ejs", "html", "json", "svg", "txt", "wasm", "gif", "jpg", "png",
     "avif", "mp4", "mp3", "ogv", "webm", "vert", "frag", "woff"}

\* Path::join
join(base, path) == IF path # <<>> /\ path[1] = RootDir THEN path ELSE base \o path

RECURSIVE CleanInto(_, _, _)
\* clean_path: the components of path from the i-th on, applied to out
CleanInto(path, i, out) ==
    IF i > Len(path) THEN out
    ELSE LET c == path[i]
         IN  IF c = CurDir THEN CleanInto(path, i + 1, out)
             ELSE IF c = ParentDir
             THEN (IF out # <<>> /\ IsNormal(out[Len(out)])
                   THEN CleanInto(path, i + 1, SubSeq(out, 1, Len(out) - 1))
                   ELSE IF out # <<>> /\ out[Len(out)] = RootDir
                   THEN CleanInto(path, i + 1, out)
                   ELSE CleanInto(path, i + 1, Append(out, c)))
             ELSE CleanInto(path, i + 1, Append(out, c))

\* clean_path::Clean::clean
clean(path) ==
    LET out == CleanInto(path, 1, <<>>)
    IN  IF out = <<>> THEN <<CurDir>> ELSE out

\* a test that knows ./ alone
IsRelativeImportCurDirOnly(dependency) == starts_with(dependency, <<CurDir>>)

\* line 142: dependency.starts_with("../") || dependency.starts_with("./")
IsRelativeImport(dependency) ==
    starts_with(dependency, <<ParentDir>>) \/ starts_with(dependency, <<CurDir>>)

\* lines 193-221: {} (a panic) or {the package root}
node_module_name(dependency) ==
    IF dependency = <<>> \/ ~IsNormal(dependency[1]) THEN {}
    ELSE IF starts_with(dependency, <<<<"@">>>>)
         THEN (IF Len(dependency) >= 2 /\ IsNormal(dependency[2])
               THEN {<<dependency[1], dependency[2]>>} ELSE {})
         ELSE {<<dependency[1]>>}

\* lines 111-188: the closure up to its last lookup, on one import of the
\* file owner_path: [pc, result, errors], pc "done" with the value returned,
\* or "missed"
Lookup(owner_path, dependency) ==
    LET resolved_dependency_path == clean(join(parent(owner_path), dependency))
        against_base_url ==
            {clean(join(b, dependency)) : b \in base_url} \cap DOMAIN path_to_module_id_map
    IN  IF extension(dependency) \cap SkippedExtensions # {}
        THEN [pc |-> "done", result |-> {}, errors |-> <<>>]
        ELSE IF IsRelativeImport(dependency)
        THEN (IF resolved_dependency_path \in DOMAIN path_to_module_id_map
              THEN [pc |-> "done",
                    result |-> {path_to_module_id_map[resolved_dependency_path]},
                    errors |-> <<>>]
              ELSE [pc |-> "done", result |-> {},
                    errors |-> <<[file |-> owner_path,
                                  message |-> <<dependency, resolved_dependency_path>>]>>])
        ELSE IF dependency \in DOMAIN path_to_module_id_map
        THEN [pc |-> "done", result |-> {path_to_module_id_map[dependency]}, errors |-> <<>>]
        ELSE IF against_base_url # {}
        THEN [pc |-> "done",
              result |-> {path_to_module_id_map[p] : p \in against_base_url},
              errors |-> <<>>]
        ELSE IF dependency \in DOMAIN node_module_import_path_to_node_module_id
        THEN [pc |-> "done",
              result |-> {node_module_import_path_to_node_module_id[dependency]},
              errors |-> <<>>]
        ELSE [pc |-> "missed", result |-> {}, errors |-> <<>>]

\* the imports of raw_dependencies, each <<owner index, import index>>
Items(deps) ==
    {it \in (1 .. Len(deps)) \X (1 .. MaxImports) : it[2] <= Len(deps[it[1]][2])}

OwnerPath(it) == raw_dependencies[it[1]][1]
Dependency(it) == raw_dependencies[it[1]][2][it[2]]

\* lines 118-188 on the import it
ResolveLookup(it) ==
    /\ returned = {}
    /\ items[it].pc = "todo"
    /\ LET r == Lookup(OwnerPath(it), Dependency(it))
       IN  /\ items' = [items EXCEPT ![it] = [pc |-> r.pc, result |-> r.result]]
           /\ resolution_errors_raw' = resolution_errors_raw \o r.errors
    /\ UNCHANGED <<raw_dependencies, path_to_module_id_map, node_module_deps,
                   node_module_import_path_to_node_module_id, returned,
                   dependency_graph>>
    /\ UNCHANGED <<files, base_url>>
    /\ UNCHANGED <<path_id_to_path, path_to_path_id, module_id_to_module,
                   path_id_to_module, pending, threads, hist>>
    /\ UNCHANGED dfsVars
    /\ UNCHANGED otherVars

\* lines 190-233 on the import it: a new id for the package, under the lock
\* of node_module_deps
AssignNodeModule(it) ==
    /\ returned = {}
    /\ items[it].pc = "missed"
    /\ node_module_name(Dependency(it)) # {}
    /\ LET module_name_ == CHOOSE n \in node_module_name(Dependency(it)) : TRUE
           new_module_id == current_module_id_max + Cardinality(DOMAIN node_module_deps)
       IN  /\ node_module_deps' = MapInsert(node_module_deps, module_name_, new_module_id)
           /\ node_module_import_path_to_node_module_id' =
                  MapInsert(node_module_import_path_to_node_module_id,
                            Dependency(it), new_module_id)
           /\ items' = [items EXCEPT ![it] = [pc |-> "done", result |-> {new_module_id}]]
    /\ UNCHANGED <<raw_dependencies, path_to_module_id_map, resolution_errors_raw, returned,
                   dependency_graph>>
    /\ UNCHANGED <<files, base_url>>
    /\ UNCHANGED <<path_id_to_path, path_to_path_id, module_id_to_module,
                   path_id_to_module, pending, threads, hist>>
    /\ UNCHANGED dfsVars
    /\ UNCHANGED otherVars

RECURSIVE FilterMap(_, _)
\* lines 116-235: filter_map(..).collect::<Vec<_>>() of the owner o: the ids
\* returned for its first k imports, in the order of the imports
FilterMap(o, k) ==
    IF k = 0 THEN <<>>
    ELSE FilterMap(o, k - 1)
           \o (IF items[<<o, k>>].result = {} THEN <<>>
               ELSE <<CHOOSE id \in items[<<o, k>>].result : TRUE>>)

\* a grouping that keeps the last message of each file
GroupErrorsLastOnly(errors) ==
    IF Len(errors) = 0 THEN {}
    ELSE {[f \in {errors[i].file : i \in 1 .. Len(errors)} |->
             LET of_f == SelectSeq(errors, LAMBDA e : e.file = f)
             IN  <<of_f[Len(of_f)].message>>]}

\* lines 240-253: None, or the messages grouped by file in the order recorded
GroupErrors(errors) ==
    IF Len(errors) = 0 THEN {}
    ELSE {[f \in {errors[i].file : i \in 1 .. Len(errors)} |->
             LET of_f == SelectSeq(errors, LAMBDA e : e.file = f)
             IN  [i \in 1 .. Len(of_f) |-> of_f[i].message]]}

\* lines 236-255: every closure has returned; resolve_imports returns
ReturnResolved ==
    /\ returned = {}
    /\ \A it \in DOMAIN items : items[it].pc = "done"
    /\ returned' =
          {[errors |-> GroupErrors(resolution_errors_raw),
            resolved_dependencies |->
                [o \in 1 .. Len(raw_dependencies) |->
                    <<path_to_module_id_map[raw_dependencies[o][1]],
                      FilterMap(o, Len(raw_dependencies[o][2]))>>]]}
    /\ UNCHANGED <<raw_dependencies, path_to_module_id_map, node_module_deps,
                   node_module_import_path_to_node_module_id, resolution_errors_raw, items,
                   dependency_graph>>
    /\ UNCHANGED <<files, base_url>>
    /\ UNCHANGED <<path_id_to_path, path_to_path_id, module_id_to_module,
                   path_id_to_module, pending, threads, hist>>
    /\ UNCHANGED dfsVars
    /\ UNCHANGED otherVars

\* lines 257-265: add_module
add_module(g, module_id, edges) ==
    [module_ids |-> Append(g.module_ids, module_id),
     module_id_to_idx |-> MapInsert(g.module_id_to_idx, module_id, Len(g.module_ids)),
     module_edge_offsets |-> Append(g.module_edge_offsets, Len(g.module_edges)),
     module_edges |-> g.module_edges \o edges]

RECURSIVE add_all_modules(_, _, _)
\* lines 267-271: add_all_modules, over the first n pairs
add_all_modules(g, resolved_dependencies, n) ==
    IF n = 0 THEN g
    ELSE add_module(add_all_modules(g, resolved_dependencies, n - 1),
                    resolved_dependencies[n][1], resolved_dependencies[n][2])

\* the caller hands what resolve_imports returned to add_all_modules
AddAllModules ==
    /\ returned # {}
    /\ dependency_graph = EmptyDependencyGraph
    /\ LET r == CHOOSE x \in returned : TRUE
       IN  dependency_graph' =
              add_all_modules(dependency_graph, r.resolved_dependencies,
                              Len(r.resolved_dependencies))
    /\ UNCHANGED <<raw_dependencies, path_to_module_id_map, node_module_deps,
                   node_module_import_path_to_node_module_id, resolution_errors_raw, items,
                   returned>>
    /\ UNCHANGED <<files, base_url>>
    /\ UNCHANGED <<path_id_to_path, path_to_path_id, module_id_to_module,
                   path_id_to_module, pending, threads, hist>>
    /\ UNCHANGED dfsVars
    /\ UNCHANGED otherVars

\* the imports resolve_imports is tried on
Import_rel_b == <<CurDir, <<"b">>>>
Import_style_css == <<CurDir, <<"style", "css">>>>
Import_index == <<<<"index">>>>
Import_react == <<<<"react">>>>

RawImports ==
    {Import_rel_b, Import_style_css, Import_index, Import_lodash_map,
     Import_lodash_fp, Import_react, Import_scope_pkg_sub}

\* the file lists DependencyGraph::new is tried on
GraphFileLists ==
    {<<File_a_ts>>, <<File_a_ts, File_b_ts>>, <<File_a_ts, File_b_index_ts>>}

\* DependencyGraph::new(files) followed by the call of resolve_imports with
\* one (owner, imports) pair per file
ResolveInit ==
    /\ files \in GraphFileLists
    /\ base_url \in BaseUrls
    /\ raw_dependencies \in
          {deps \in [1 .. Len(files) -> FileUniverse \X SeqsUpTo(RawImports, MaxImports)] :
              \A o \in 1 .. Len(files) : deps[o][1] = files[o]}
    /\ path_to_module_id_map = NewPathToModuleIdMap(files)
    /\ node_module_deps = <<>>
    /\ node_module_import_path_to_node_module_id = <<>>
    /\ resolution_errors_raw = <<>>
    /\ items = [it \in Items(raw_dependencies) |-> [pc |-> "todo", result |-> {}]]
    /\ returned = {}
    /\ dependency_graph = EmptyDependencyGraph
    /\ path_id_to_path = <<>>
    /\ path_to_path_id = <<>>
    /\ module_id_to_module = <<>>
    /\ path_id_to_module = <<>>
    /\ pending = {}
    /\ threads = <<>>
    /\ hist = [path_ids |-> <<>>, module_ids |-> <<>>, ret |-> {}, calls |-> <<>>]
    /\ DfsIdle
    /\ OthersIdle

ResolveNext ==
    \/ \E it \in DOMAIN items : ResolveLookup(it)
    \/ \E it \in DOMAIN items : AssignNodeModule(it)
    \/ ReturnResolved
    \/ AddAllModules

SpecResolve == ResolveInit /\ [][ResolveNext]_vars

\* resolve_imports on two files, the first with up to MaxImports imports and
\* the second with at most one: relative imports that hit and that miss,
\* imports of files that are not code, imports spelt from base_url, and an
\* import of a package
File_b_types_d_ts == <<RootDir, <<"r">>, <<"b">>, <<"types", "d", "ts">>>>
Import_notes_md == <<CurDir, <<"notes", "md">>>>
Import_data_json == <<<<"data", "json">>>>
Import_types == <<<<"types">>>>

ImportFileLists ==
    {<<File_a_ts, File_b_ts>>, <<File_a_ts, File_b_index_ts>>,
     <<File_a_ts, File_b_types_d_ts>>}

FirstOwnerImports ==
    {Import_rel_b, Import_notes_md, Import_style_css, Import_data_json,
     Import_index, Import_types, Import_react}

Import_up_a == <<ParentDir, <<"a">>>>
SecondOwnerImports == {Import_up_a, Import_react}

ImportsInit ==
    /\ files \in ImportFileLists
    /\ base_url \in BaseUrls
    /\ \E first \in SeqsUpTo(FirstOwnerImports, MaxImports),
          second \in SeqsUpTo(SecondOwnerImports, 1) :
          raw_dependencies = << <<files[1], first>>, <<files[2], second>> >>
    /\ path_to_module_id_map = NewPathToModuleIdMap(files)
    /\ node_module_deps = <<>>
    /\ node_module_import_path_to_node_module_id = <<>>
    /\ resolution_errors_raw = <<>>
    /\ items = [it \in Items(raw_dependencies) |-> [pc |-> "todo", result |-> {}]]
    /\ returned = {}
    /\ dependency_graph = EmptyDependencyGraph
    /\ path_id_to_path = <<>>
    /\ path_to_path_id = <<>>
    /\ module_id_to_module = <<>>
    /\ path_id_to_module = <<>>
    /\ pending = {}
    /\ threads = <<>>
    /\ hist = [path_ids |-> <<>>, module_ids |-> <<>>, ret |-> {}, calls |-> <<>>]
    /\ DfsIdle
    /\ OthersIdle

SpecImports == ImportsInit /\ [][ResolveNext]_vars

(***************************************************************************)
(* Initial states: any graph of at most MaxEdges edges over the nodes, any *)
(* seed, direction and depth bound.                                        *)
(***************************************************************************)
Graphs(n, m) ==
    {[node_count |-> n, edges |-> es] : es \in SeqsUpTo((0 .. (n - 1)) \X (0 .. (n - 1)), m)}

DfsInit(n, m) ==
    /\ graph \in Graphs(n, m)
    /\ direction \in Directions
    /\ max_depth \in 0 .. MaxDepthArg
    /\ seed \in Nodes(graph)
    /\ forks = <<NewExpansion(seed)>>
    /\ seen_nodes = NewSeen(graph)
    /\ yielded = {}
    /\ StoreIdle
    /\ ResolveIdle
    /\ OthersIdle

DfsFrame ==
    /\ UNCHANGED <<graph, direction, max_depth, seed>>
    /\ UNCHANGED storeVars
    /\ UNCHANGED resolveVars
    /\ UNCHANGED otherVars

(***************************************************************************)
(* Iterator::next of fork i, run without interruption (lines 48-75).       *)
(***************************************************************************)
DfsNext(i) ==
    /\ forks[i].pc = "idle"
    /\ forks[i].stack # <<>>
    /\ LET item == Top(forks[i].stack)
           rest == Rest(forks[i].stack)
       IN  /\ yielded' = yielded \cup {item.node_idx}
           /\ IF IsSeen(seen_nodes, item)
              THEN /\ forks' = [forks EXCEPT ![i].stack = rest]
                   /\ UNCHANGED seen_nodes
              ELSE /\ seen_nodes' = MarkSeen(seen_nodes, item)
                   /\ forks' = [forks EXCEPT ![i].stack =
                          StackAfterVisit(graph, direction, max_depth, rest, item)]
    /\ DfsFrame

\* lines 73-74: the stack is empty, next() returns None
DfsNone(i) ==
    /\ forks[i].pc = "idle"
    /\ forks[i].stack = <<>>
    /\ forks' = [forks EXCEPT ![i].pc = "done"]
    /\ UNCHANGED <<seen_nodes, yielded>>
    /\ DfsFrame

(***************************************************************************)
(* next() of fork i as two steps when forks run concurrently: the read     *)
(* lock of line 50 is released before the write lock of line 54 is taken.  *)
(***************************************************************************)
DfsNextRead(i) ==
    /\ forks[i].pc = "idle"
    /\ forks[i].stack # <<>>
    /\ LET item == Top(forks[i].stack)
           rest == Rest(forks[i].stack)
       IN  IF IsSeen(seen_nodes, item)
           THEN /\ forks' = [forks EXCEPT ![i].stack = rest]
                /\ yielded' = yielded \cup {item.node_idx}
           ELSE /\ forks' = [forks EXCEPT ![i] = [stack |-> rest, pc |-> "mark", item |-> item]]
                /\ UNCHANGED yielded
    /\ UNCHANGED seen_nodes
    /\ DfsFrame

DfsNextWrite(i) ==
    /\ forks[i].pc = "mark"
    /\ LET item == forks[i].item
       IN  /\ seen_nodes' = MarkSeen(seen_nodes, item)
           /\ forks' = [forks EXCEPT ![i] =
                  [stack |-> StackAfterVisit(graph, direction, max_depth, forks[i].stack, item),
                   pc |-> "idle", item |-> StackItem(0, 0)]]
           /\ yielded' = yielded \cup {item.node_idx}
    /\ DfsFrame

(***************************************************************************)
(* Spliterator::split of fork i (lines 80-94).                             *)
(***************************************************************************)
\* a split that leaves the larger half of an odd stack in the original
SplitOffCeil(stack) ==
    LET len == Len(stack)
        at == (len + 1) \div 2
    IN  [kept |-> SubSeq(stack, 1, at), moved |-> SubSeq(stack, at + 1, len)]

\* line 83: self.stack.split_off(len / 2)
SplitOff(stack) ==
    LET len == Len(stack)
        at == len \div 2
    IN  [kept |-> SubSeq(stack, 1, at), moved |-> SubSeq(stack, at + 1, len)]

Split(i) ==
    /\ forks[i].pc = "idle"
    /\ Len(forks) < MaxForks
    /\ IF Len(forks[i].stack) >= 2
       THEN LET halves == SplitOff(forks[i].stack)
            IN  forks' = Append([forks EXCEPT ![i].stack = halves.kept],
                                [stack |-> halves.moved, pc |-> "idle", item |-> StackItem(0, 0)])
       ELSE UNCHANGED forks
    /\ UNCHANGED <<seen_nodes, yielded>>
    /\ DfsFrame

\* the sequential traversal: one expansion, never split
Init == DfsInit(NumNodes, MaxEdges)
Next == DfsNext(1) \/ DfsNone(1)
Spec == Init /\ [][Next]_vars

\* the sequential traversal on graphs of up to DeepEdges edges
DeepInit == DfsInit(NumNodes, DeepEdges)
SpecDeep == DeepInit /\ [][Next]_vars

\* the sequential traversal, every run on every graph of DfsNodes nodes
DfsSmallInit == DfsInit(DfsNodes, DfsEdges)
SpecDfs == DfsSmallInit /\ [][Next]_vars
\* next() is called until it returns None (Iterator::collect)
FairSpecDfs == SpecDfs /\ WF_vars(Next)

\* the traversal split into forks that share seen_nodes and run concurrently
ParNext ==
    \E i \in 1 .. Len(forks) : DfsNextRead(i) \/ DfsNextWrite(i) \/ DfsNone(i) \/ Split(i)
SpecPar == Init /\ [][ParNext]_vars

\* a traversal split into forks whose next() calls are made one at a time,
\* every run on every graph of SplitNodes nodes
SplitInit == DfsInit(SplitNodes, SplitEdges)
SplitNext ==
    \E i \in 1 .. Len(forks) : DfsNext(i) \/ DfsNone(i) \/ Split(i)
SpecSplit == SplitInit /\ [][SplitNext]_vars

\* every fork has been drained: next() returned None on each
Done == \A i \in 1 .. Len(forks) : forks[i].pc = "done"

(***************************************************************************)
(* ImportVisitor (import_visitor.rs).  The visitor is [errors,             *)
(* dependencies]; each visit method is a function from the visitor and the *)
(* node it is given to the visitor it leaves.  An expression is [expr, lit, *)
(* value]: the variant of Expr, for a literal the variant of Lit, and the  *)
(* string of a Str or the symbol of an Ident.  An argument is an           *)
(* ExprOrSpread, [spread, expr].                                           *)
(***************************************************************************)
Expression(expr, lit, value) == [expr |-> expr, lit |-> lit, value |-> value]

\* the expressions tried as arguments: a string literal, a number, an
\* identifier and a template literal
ArgExprs ==
    {Expression("Lit", "Str", "./b"), Expression("Lit", "Num", ""),
     Expression("Ident", "", "name"), Expression("Tpl", "", "")}

\* the arguments tried: each expression alone, and the identifier spread
ArgUniverse ==
    {[spread |-> FALSE, expr |-> e] : e \in ArgExprs}
        \cup {[spread |-> TRUE, expr |-> Expression("Ident", "", "name")]}

\* the callees tried with every argument list: import, require, another
\* identifier
Callees ==
    {[callee |-> "Import", expr |-> Expression("", "", "")],
     [callee |-> "Expr", expr |-> Expression("Ident", "", "require")],
     [callee |-> "Expr", expr |-> Expression("Ident", "", "parse")]}

\* super(...), tried without arguments and with a string literal
SuperCallee == [callee |-> "Super", expr |-> Expression("", "", "")]

SuperCalls ==
    {<<>>, <<[spread |-> FALSE, expr |-> Expression("Lit", "Str", "./b")]>>}

\* the import strings of the declarations tried
SourceStrings == {"./b", "react"}

\* a node the visit methods are given: [type, callee, args, src], src {}
\* (None) or {string}
Node(type, callee, args, src) ==
    [type |-> type, callee |-> callee, args |-> args, src |-> src]

NoCallee == [callee |-> "", expr |-> Expression("", "", "")]

CallExprs ==
    {Node("CallExpr", c, args, {}) : c \in Callees, args \in SeqsUpTo(ArgUniverse, MaxArgs)}
        \cup {Node("CallExpr", SuperCallee, args, {}) : args \in SuperCalls}

VisitedNodes ==
    CallExprs
        \cup {Node(type, NoCallee, <<>>, {s}) :
                type \in {"TsImportType", "ImportDecl", "TsExternalModuleRef",
                          "ExportAll", "NamedExport"},
                s \in SourceStrings}
        \cup {Node("NamedExport", NoCallee, <<>>, {}), Node("TsEntityName", NoCallee, <<>>, {})}

\* PathBuf::from_str on the import strings tried
from_str(s) ==
    CASE s = "./b" -> Import_rel_b
      [] s = "react" -> Import_react

\* lines 14-19
NewImportVisitor == [errors |-> <<>>, dependencies |-> <<>>]

\* lines 24-27
add_dependency(v, dependency) ==
    [v EXCEPT !.dependencies = Append(@, from_str(dependency))]

\* self.errors.push(format!(...)): the message is its format string with the
\* values put into it
push_error(v, format, kind, found) ==
    [v EXCEPT !.errors = Append(@, <<format, kind, found>>)]

\* lines 46-54
lit_name(lit) ==
    CASE lit = "Str" -> "Str"
      [] lit = "Bool" -> "Boolean"
      [] lit = "Null" -> "Null"
      [] lit = "Num" -> "Number"
      [] lit = "BigInt" -> "BigInt"
      [] lit = "Regex" -> "Regex"
      [] lit = "JSXText" -> "JSXText"

\* lines 70-104, for the expressions tried
expr_name(expr) ==
    CASE expr = "Tpl" -> "Template Literal"
      [] expr = "Call" -> "Call Expression"
      [] expr = "Member" -> "Member Expression"
      [] OTHER -> "Unknown"

\* a test that takes any call with arguments as well formed
WrongArityNone(args) == Len(args) = 0

\* line 30: expr.args.len() != 1
WrongArity(args) == Len(args) # 1

\* lines 29-109
get_dependency_for_call_like_expr(v, kind, node) ==
    IF WrongArity(node.args)
    THEN push_error(v, "Expected a {} with exactly 1 string argument, found {} arguments",
                    kind, Len(node.args))
    ELSE LET arg == node.args[1].expr
         IN  CASE arg.expr = "Lit" /\ arg.lit = "Str" -> add_dependency(v, arg.value)
               [] arg.expr = "Lit" /\ arg.lit # "Str" ->
                    push_error(v, "Expected a {} with exactly 1 string argument, found 1 {:?} literal arguments",
                               kind, lit_name(arg.lit))
               [] arg.expr = "Ident" ->
                    push_error(v, "Found a dynamic {}, unable to resolve dependency", kind, "")
               [] OTHER ->
                    push_error(v, "Expected a {} with exactly 1 string argument, found 1 {:?} arguments",
                               kind, expr_name(arg.expr))

\* lines 152-173
visit_mut_call_expr(v, node) ==
    CASE node.callee.callee = "Import" -> get_dependency_for_call_like_expr(v, "import", node)
      [] node.callee.callee = "Expr" ->
            IF node.callee.expr.expr = "Ident" /\ node.callee.expr.value = "require"
            THEN get_dependency_for_call_like_expr(v, "require", node)
            ELSE v
      [] node.callee.callee = "Super" -> v

\* lines 113-148: the visit methods of the declarations
visit_mut_declaration(v, node) ==
    CASE node.type = "TsEntityName" -> v
      [] node.type = "NamedExport" /\ node.src = {} -> v
      [] OTHER -> add_dependency(v, CHOOSE s \in node.src : TRUE)

\* the visit method swc calls for the node
visit_mut(v, node) ==
    IF node.type = "CallExpr" THEN visit_mut_call_expr(v, node)
    ELSE visit_mut_declaration(v, node)

\* the entries of errors and dependencies together
Collected(v) == Len(v.errors) + Len(v.dependencies)

VisitorInit ==
    /\ visitor = NewImportVisitor
    /\ visited = <<>>
    /\ guards = <<>>
    /\ repl = [pc |-> "none", file_input |-> <<>>]
    /\ console = <<>>
    /\ DfsIdle
    /\ StoreIdle
    /\ ResolveIdle

\* parse_file walks the module: one more node is given to its visit method
Visit(node) ==
    /\ Collected(visitor) < MaxVisited
    /\ visitor' = visit_mut(visitor, node)
    /\ visited' = <<[node |-> node, before |-> visitor]>>
    /\ UNCHANGED <<guards, repl, console>>
    /\ UNCHANGED dfsVars
    /\ UNCHANGED storeVars
    /\ UNCHANGED resolveVars

VisitorNext == \E node \in VisitedNodes : Visit(node)

SpecVisitor == VisitorInit /\ [][VisitorNext]_vars

(***************************************************************************)
(* main: the prompt loop (main.rs, lines 104-155).  A line of input is the *)
(* sequence of its pieces: words, the blanks " " and "\n" between and      *)
(* after them, and "0xFF" for a byte that is not UTF-8; the empty sequence *)
(* is what Stdin::read_line leaves at the end of input.  console is what   *)
(* main has printed and read: [op, arg] with op "println", "eprintln",     *)
(* "read_line" (arg the line as read) or "query" (arg [file, direction,    *)
(* outcome], a call of get_all_dependencies).                              *)
(***************************************************************************)
Whitespace == {" ", "\n", "\t"}

RECURSIVE trim_start(_)
trim_start(line) ==
    IF line # <<>> /\ line[1] \in Whitespace THEN trim_start(Tail(line)) ELSE line

RECURSIVE trim_end(_)
trim_end(line) ==
    IF line # <<>> /\ line[Len(line)] \in Whitespace
    THEN trim_end(SubSeq(line, 1, Len(line) - 1))
    ELSE line

\* str::trim
trim(line) == trim_end(trim_start(line))

\* Stdin::read_line returns Ok: the bytes read are UTF-8
IsUtf8(raw) == \A k \in 1 .. Len(raw) : raw[k] # "0xFF"

\* lines 147-155: [panic, line], line {} (None) or {the trimmed line}
read_line(raw) ==
    IF ~IsUtf8(raw) THEN [panic |-> TRUE, line |-> {}]
    ELSE LET line == trim(raw)
         IN  [panic |-> FALSE, line |-> IF line = <<"q">> THEN {} ELSE {line}]

\* a match that takes 0 for dependents and 1 for dependencies
parse_direction_swapped(l) ==
    CASE l = <<"0">> \/ l = <<"dependents">> -> {"Outgoing"}
      [] l = <<"1">> \/ l = <<"dependencies">> -> {"Incoming"}
      [] OTHER -> {}

\* lines 115-119: {} (continue) or {the Direction}
parse_direction(l) ==
    CASE l = <<"0">> \/ l = <<"dependencies">> -> {"Outgoing"}
      [] l = <<"1">> \/ l = <<"dependents">> -> {"Incoming"}
      [] OTHER -> {}

\* the files that exist, by the text that names them
FileSystem == (<<"/r/a.ts">> :> File_a_ts) @@ (<<"a.ts">> :> File_a_ts)

\* file_system.rs, lines 79-83: {} (Err) or {the canonical path}
path_parser_absolute(path) ==
    IF path \in DOMAIN FileSystem THEN {FileSystem[path]} ELSE {}

\* what DependencyGraph::get_all_dependencies returns: Ok or Err
QueryOutcomes == {"Ok", "Err"}

Event(op, arg) == [op |-> op, arg |-> arg]

\* a path that is unwrapped: the Err panics
invalid_path_unwrapped(out) == [pc |-> "panicked", console |-> out]

\* lines 138-143: the Err arm of path_parser_absolute, to the end of the loop body
invalid_path(out) ==
    [pc |-> "path",
     console |-> out \o <<Event("println", "Invalid path: {}"), Event("println", "")>>]

\* lines 126-137, 143: the Ok arm, to the end of the loop body
get_dependencies(out, file, dir, outcome) ==
    [pc |-> "path",
     console |-> out
        \o <<Event("eprintln", "Fetching dependencies"),
             Event("query", [file |-> file, direction |-> dir, outcome |-> outcome]),
             IF outcome = "Ok" THEN Event("eprintln", "Done in {:?}: {:#?}")
             ELSE Event("println", "Error getting dependencies {:?}"),
             Event("println", "")>>]

\* lines 125-143
run_query(out, file_input, dir, outcome) ==
    LET file == path_parser_absolute(file_input)
    IN  IF file = {} THEN invalid_path(out)
        ELSE get_dependencies(out, CHOOSE f \in file : TRUE, dir, outcome)

\* the lines typed or piped into the program
InputLines ==
    {<<"q", "\n">>, <<" ", "q", " ", "\n">>, <<>>, <<"\n">>,
     <<"0", "\n">>, <<"1", "\n">>, <<"dependencies", "\n">>, <<"dependents", "\n">>,
     <<"2", "\n">>, <<"/r/a.ts", "\n">>, <<"/r/none.ts", "\n">>, <<"0xFF", "\n">>}

\* the file lists the graph of the loop is built from
ReplFileLists == {<<>>, <<File_a_ts, File_b_ts>>}

\* what resolve_imports returned for the list: a.ts imports ./b
ReplResolved(paths) == IF paths = <<>> THEN <<>> ELSE <<<<0, <<1>>>>, <<1, <<>>>>>>

\* the lines read so far
LinesRead == Cardinality({k \in 1 .. Len(console) : console[k].op = "read_line"})

\* lines 45-102: main has built the graph and is at the prompt for a path
ReplInit ==
    /\ files \in ReplFileLists
    /\ base_url = {}
    /\ path_to_module_id_map = NewPathToModuleIdMap(files)
    /\ dependency_graph
          = add_all_modules(EmptyDependencyGraph, ReplResolved(files), Len(ReplResolved(files)))
    /\ raw_dependencies = <<>>
    /\ node_module_deps = <<>>
    /\ node_module_import_path_to_node_module_id = <<>>
    /\ resolution_errors_raw = <<>>
    /\ items = <<>>
    /\ returned = {}
    /\ path_id_to_path = <<>>
    /\ path_to_path_id = <<>>
    /\ module_id_to_module = <<>>
    /\ path_id_to_module = <<>>
    /\ pending = {}
    /\ threads = <<>>
    /\ hist = [path_ids |-> <<>>, module_ids |-> <<>>, ret |-> {}, calls |-> <<>>]
    /\ guards = <<>>
    /\ visitor = [errors |-> <<>>, dependencies |-> <<>>]
    /\ visited = <<>>
    /\ repl = [pc |-> "path", file_input |-> <<>>]
    /\ console = <<>>
    /\ DfsIdle

ReplFrame ==
    /\ UNCHANGED <<guards, visitor, visited>>
    /\ UNCHANGED dfsVars
    /\ UNCHANGED storeVars
    /\ UNCHANGED resolveVars

\* lines 105-109: the prompt for the path and its read_line
ReadPath(raw) ==
    /\ repl.pc = "path"
    /\ LinesRead < MaxLines
    /\ LET r == read_line(raw)
           out == console \o <<Event("println", "Enter file path (relative or absolute):"),
                               Event("read_line", raw)>>
       IN  /\ console' = out
           /\ repl' = IF r.panic THEN [repl EXCEPT !.pc = "panicked"]
                      ELSE IF r.line = {} THEN [repl EXCEPT !.pc = "exited"]
                      ELSE [pc |-> "direction", file_input |-> CHOOSE l \in r.line : TRUE]
    /\ ReplFrame

\* lines 113-143: the prompt for the direction, its read_line and, once a
\* direction is read, the rest of the loop body
ReadDirection(raw, outcome) ==
    /\ repl.pc = "direction"
    /\ LinesRead < MaxLines
    /\ LET r == read_line(raw)
           out == console
                    \o <<Event("println", "Enter direction - dependencies (0) or dependents (1):"),
                         Event("read_line", raw)>>
           dir == IF r.line = {} THEN {} ELSE parse_direction(CHOOSE l \in r.line : TRUE)
       IN  IF r.panic
           THEN console' = out /\ repl' = [repl EXCEPT !.pc = "panicked"]
           ELSE IF r.line = {}
           THEN console' = out /\ repl' = [repl EXCEPT !.pc = "exited"]
           ELSE IF dir = {}
           THEN console' = out /\ UNCHANGED repl
           ELSE LET done == run_query(out, repl.file_input, CHOOSE d \in dir : TRUE, outcome)
                IN  /\ console' = done.console
                    /\ repl' = [pc |-> done.pc, file_input |-> <<>>]
    /\ ReplFrame

ReplNext ==
    \/ \E raw \in InputLines : ReadPath(raw)
    \/ \E raw \in InputLines, outcome \in QueryOutcomes : ReadDirection(raw, outcome)

SpecRepl == ReplInit /\ [][ReplNext]_vars

(***************************************************************************)
(* Reference definitions the claims are stated against.                    *)
(***************************************************************************)
\* the neighbours of a in direction dir, as a set
Succ(g, dir, a) ==
    IF dir = "Outgoing"
    THEN {e[2] : e \in {x \in Range(g.edges) : x[1] = a}}
    ELSE {e[1] : e \in {x \in Range(g.edges) : x[2] = a}}

RECURSIVE Closure(_, _, _)
Closure(g, dir, S) ==
    LET T == S \cup UNION {Succ(g, dir, a) : a \in S}
    IN  IF T = S THEN S ELSE Closure(g, dir, T)

\* the nodes connected to s by a directed path in direction dir, s included
Reachable(g, dir, s) == Closure(g, dir, {s})

\* k1 <= k2 as depth bounds, 0 read as infinity
DepthLeq(k1, k2) == k2 = 0 \/ (k1 # 0 /\ k1 <= k2)

\* C8: get_id_for_path is idempotent and injective over any sequence of calls:
\* the same path always gets the same PathId, different paths different ones.
C8_InternIdempotentInjective ==
    \A x, y \in hist.ret : (x[1] = y[1]) <=> (x[2] = y[2])

\* get_id_for_path was called twice with one path that was new to the store,
\* after aliases of a scanned file had been interned
C8_Witness ==
    /\ Len(hist.calls) = 2
    /\ hist.calls[1] = <<"get_id_for_path", Import_lodash, hist.calls[1][3]>>
    /\ hist.calls[2] = <<"get_id_for_path", Import_lodash, hist.calls[1][3]>>
    /\ Import_lodash \notin Range(files)
    /\ Cardinality(hist.ret) > 2

\* C9: path round-trip: after any sequence of store operations, every interned
\* path p satisfies get_path_for_id(get_id_for_path(p)) = p, and every id
\* get_id_for_path ever returned for p still leads back to p.
C9_PathRoundTrip ==
    /\ \A p \in DOMAIN path_to_path_id :
          LET r == get_id_for_path(Store, p)
          IN  get_path_for_id(r.st, r.id) = p
    /\ \A x \in hist.ret : get_path_for_id(Store, x[2]) = x[1]

\* paths were interned by new(), by resolve_paths, by get_id_for_path and by
\* add_node_module
C9_Witness ==
    /\ Len(files) = 2
    /\ Len(hist.calls) = 2
    /\ hist.calls[1][1] # hist.calls[2][1]
    /\ Cardinality(DOMAIN path_to_path_id) > Len(files) + 3

\* C10: dense ids: the PathIds created so far are exactly 0 .. |path_id_to_path|-1
\* and the ModuleIds exactly 0 .. |module_id_to_module|-1, each new id is the
\* count before its creation, and no id is created twice.
C10_DenseIds ==
    /\ hist.path_ids = IdSeq(Len(path_id_to_path))
    /\ hist.module_ids = IdSeq(Len(module_id_to_module))
    /\ \A k \in 1 .. Len(module_id_to_module) : module_id_to_module[k].module_id = k - 1

\* on a store built from two files whose aliases were interned, two racing
\* add_node_module calls have each made a PathId and a ModuleId for one
\* package root
C10_Witness ==
    /\ Len(files) = 2
    /\ Len(hist.calls) = 2
    /\ hist.calls[1][1] = "add_node_module"
    /\ hist.calls[2][1] = "add_node_module"
    /\ Len(module_id_to_module) = Len(files) + 2
    /\ Len(path_id_to_path) > Len(files) + 4
    /\ \E i, j \in 1 .. Len(path_id_to_path) :
          i # j /\ path_id_to_path[i] = path_id_to_path[j]

\* C1: the unbounded traversal returns exactly the nodes connected to the seed
\* by a directed path in the chosen direction, the seed included.
C1_ExactReachableSet ==
    (Done /\ max_depth = 0) => yielded = Reachable(graph, direction, seed)

\* C2: depth monotonicity: what the traversal returns with bound k1 is also
\* returned with every bound k2 >= k1 (0 read as infinity).
C2_DepthMonotone ==
    Done => \A k2 \in 0 .. MaxDepthArg :
                DepthLeq(max_depth, k2) => yielded \subseteq Collect(graph, direction, k2, seed)

\* C3: direction duality: v is returned by the unbounded Outgoing traversal
\* from u iff u is returned by the unbounded Incoming traversal from v.
C3_DirectionDuality ==
    (Done /\ max_depth = 0 /\ direction = "Outgoing") =>
        \A v \in Nodes(graph) :
            (v \in yielded) <=> (seed \in Collect(graph, "Incoming", 0, v))

\* C4: reflexivity: the seed is among the nodes the traversal yields, for
\* every direction and every max_depth.
C4_SeedYielded == Done => seed \in yielded

\* the chains through all the nodes of g: the orders c[1] -> c[2] -> ... -> c[n]
ChainOrders(g) ==
    {c \in [1 .. g.node_count -> Nodes(g)] :
        /\ \A i, j \in 1 .. g.node_count : c[i] = c[j] => i = j
        /\ Len(g.edges) = g.node_count - 1
        /\ Range(g.edges) = {<<c[i], c[i + 1]>> : i \in 1 .. (g.node_count - 1)}}

\* C5: on a chain m0 -> m1 -> ... -> m(n-1), whatever the node indices of the
\* chain, the Outgoing traversal from m0 with bound k (0 < k < n) returns
\* exactly {m0 .. mk}, and with bound 0 all n modules.
C5_ChainDepthBound ==
    (Done /\ direction = "Outgoing" /\ max_depth < graph.node_count) =>
        \A c \in ChainOrders(graph) :
            seed = c[1] =>
                yielded = {c[i] : i \in 1 .. (IF max_depth = 0 THEN graph.node_count
                                                ELSE max_depth + 1)}

RECURSIVE UnseenRank(_, _, _)
\* the first n entries of the seen vector read as a binary number, entry 0
\* the most significant, an unseen entry counting 1
UnseenRank(seen, i, n) ==
    IF i > n THEN 0
    ELSE (IF seen[i] THEN 0 ELSE 2 ^ (n - i)) + UnseenRank(seen, i + 1, n)

\* a natural number that bounds the number of next() calls still to come
Measure ==
    UnseenRank(seen_nodes, 1, graph.node_count) * (Len(graph.edges) + 1)
        + Len(forks[1].stack) + (IF forks[1].pc = "done" THEN 0 ELSE 1)

\* C7: the traversal terminates on every finite graph, cycles and self-loops
\* included: every next() call strictly lowers a natural-number measure, so
\* after finitely many calls the stack is empty and next() returns None.
C7_Terminates == [][Measure' < Measure /\ Measure' >= 0]_vars

\* C7, as a liveness property of the drained iterator
C7_EventuallyDone == <>Done

\* a traversal over a graph with a self-loop and a longer cycle has ended,
\* having popped some node more than once
C7_Witness ==
    /\ Done
    /\ \E a \in Nodes(graph) : <<a, a>> \in Range(graph.edges)
    /\ \E a, b \in Nodes(graph) :
          a # b /\ <<a, b>> \in Range(graph.edges) /\ <<b, a>> \in Range(graph.edges)
    /\ Len(seen_nodes) > graph.node_count + 1

\* C6: sequential/parallel equivalence: with max_depth = 0, whatever the
\* schedule of split() calls and the interleaving of the forks' next() calls,
\* the union of what the forks yield is what the unsplit traversal yields.
C6_ParallelEqualsSequential ==
    (Done /\ max_depth = 0) => yielded = Collect(graph, direction, 0, seed)

\* a bounded Incoming traversal from a seed other than node 0 has ended and
\* returned the seed among other nodes
C4_Witness ==
    /\ Done
    /\ max_depth > 0
    /\ direction = "Incoming"
    /\ seed # 0
    /\ seed \in yielded
    /\ Cardinality(yielded) > 1

\* the package root add_node_module takes from an import path
RootOf(path) == CHOOSE n \in module_name(path) : TRUE

\* C11: under any interleaving of concurrent get_id_for_path callers, a path
\* new to the store is pushed onto path_id_to_path at most once: every caller
\* passing one path is returned one PathId and no path holds two PathIds.
C11_OnePushPerPath ==
    /\ \A x, y \in hist.ret : x[1] = y[1] => x[2] = y[2]
    /\ \A i, j \in 1 .. Len(path_id_to_path) :
          path_id_to_path[i] = path_id_to_path[j] => i = j

\* C12: under any interleaving of concurrent add_node_module callers, a package
\* root new to the store is pushed onto module_id_to_module at most once: the
\* callers importing deep paths of one package are all returned one module_id.
C12_OnePushPerPackageRoot ==
    /\ \A i, j \in 1 .. Len(module_id_to_module) :
          get_path_for_module(Store, module_id_to_module[i])
             = get_path_for_module(Store, module_id_to_module[j]) => i = j
    /\ \A i, j \in 1 .. Len(hist.calls) :
          (/\ hist.calls[i][1] = "add_node_module"
           /\ hist.calls[j][1] = "add_node_module"
           /\ RootOf(hist.calls[i][2]) = RootOf(hist.calls[j][2]))
          => hist.calls[i][3] = hist.calls[j][3]

\* the first components of the model's import paths that begin with '@'
ScopeNames == {<<"@scope">>}

\* the package root of an import path as the specification defines it: the
\* first component, or the first two when the first begins with '@'
PackageRoot(path) ==
    IF path[1] \in ScopeNames /\ Len(path) >= 2 THEN <<path[1], path[2]>> ELSE <<path[1]>>

\* the add_node_module calls made so far
AddNodeModuleCalls == {i \in 1 .. Len(hist.calls) : hist.calls[i][1] = "add_node_module"}

\* C13: after any sequence of sequential add_node_module calls there is exactly
\* one Module per distinct external package root: two calls return one
\* module_id exactly when their paths share a package root, and the module
\* count has grown by one per distinct root.
C13_OneModulePerPackageRoot ==
    Constructed =>
      /\ \A i, j \in AddNodeModuleCalls :
            (PackageRoot(hist.calls[i][2]) = PackageRoot(hist.calls[j][2]))
               <=> (hist.calls[i][3] = hist.calls[j][3])
      /\ Len(module_id_to_module)
            = Len(files) + Cardinality({PackageRoot(hist.calls[i][2]) : i \in AddNodeModuleCalls})

\* the import is not dropped, is not relative, and is found neither in
\* path_to_module_id_map nor against base_url
MissesEveryLookup(dependency) ==
    /\ extension(dependency) \cap SkippedExtensions = {}
    /\ ~IsRelativeImport(dependency)
    /\ dependency \notin DOMAIN path_to_module_id_map
    /\ \A b \in base_url : clean(join(b, dependency)) \notin DOMAIN path_to_module_id_map

\* C14: in resolve_imports two non-relative imports that miss every lookup are
\* given one target module id exactly when they have one package root: the
\* deep imports of a package share an id, imports of different packages do not.
C14_SameIdIffSamePackage ==
    \A i, j \in DOMAIN items :
        (/\ items[i].pc = "done" /\ MissesEveryLookup(Dependency(i))
         /\ items[j].pc = "done" /\ MissesEveryLookup(Dependency(j)))
        => ((items[i].result = items[j].result)
               <=> (PackageRoot(Dependency(i)) = PackageRoot(Dependency(j))))

\* C15: package-root extraction: the external module made for an import path
\* is keyed on the first two components joined when the first component
\* begins with '@' and a second exists (@scope/pkg/sub gives the module
\* @scope/pkg), and on the first component alone for every other path.
C15_KeyedOnPackageRoot ==
    Constructed =>
      \A i \in AddNodeModuleCalls :
          get_path_for_module(Store, VecAt(module_id_to_module, hist.calls[i][3]))
             = PackageRoot(hist.calls[i][2])

\* the modules proposed for an import name: those whose file generates it
CandidatesFor(name) ==
    {i \in 1 .. Len(files) : name \in Range(extra_paths(files[i], base_url))}

\* every import name some file generates
GeneratedNames ==
    UNION {Range(extra_paths(files[i], base_url)) : i \in 1 .. Len(files)}

IsIndexFile(path) == file_stem(path) = IndexFileName

\* the file of the module committed for an import name
CommittedFile(name) ==
    get_path_for_module(Store, CHOOSE m \in try_get_module_for_path(Store, name) : TRUE)

\* C16: when an import name has both a directory index and a file that is
\* not an index among its candidates, the module committed for it is one
\* of a file that is not an index, whatever the extensions and the ids.
C16_SiblingBeforeIndex ==
    Constructed =>
      \A name \in GeneratedNames :
          (/\ \E i \in CandidatesFor(name) : IsIndexFile(files[i])
           /\ \E i \in CandidatesFor(name) : ~IsIndexFile(files[i]))
            => /\ try_get_module_for_path(Store, name) # {}
               /\ ~IsIndexFile(CommittedFile(name))

\* b.js and b/index.ts both answer to /r/b, the index with the better
\* extension and the smaller id, and construction has finished
C16_Witness ==
    /\ Constructed
    /\ files = <<File_b_index_ts, File_b_js>>
    /\ CommittedFile(Dir_b) = File_b_js

\* the pieces of a file name after its stem: "d.ts" for a.d.ts, "ts" for a.ts
DeclaredExtension(path) ==
    LET name == path[Len(path)]
        n == Len(name)
    IN  IF n >= 3 /\ name[n - 1] = "d" /\ name[n] \in {"ts", "mts", "cts"}
        THEN <<"d", name[n]>>
        ELSE <<name[n]>>

\* the order ts > tsx > d.ts > js > jsx > cts > d.cts > cjs > mts > d.mts >
\* mjs > anything else, as a rank
ExtensionRank(path) ==
    LET e == DeclaredExtension(path)
    IN  CASE e = <<"ts">> -> 11
          [] e = <<"tsx">> -> 10
          [] e = <<"d", "ts">> -> 9
          [] e = <<"js">> -> 8
          [] e = <<"jsx">> -> 7
          [] e = <<"cts">> -> 6
          [] e = <<"d", "cts">> -> 5
          [] e = <<"cjs">> -> 4
          [] e = <<"mts">> -> 3
          [] e = <<"d", "mts">> -> 2
          [] e = <<"mjs">> -> 1
          [] OTHER -> 0

\* C17: among the candidates for one import name that are all index files
\* or all not, the committed module is one whose extension ranks highest
\* in ts > tsx > d.ts > js > jsx > cts > d.cts > cjs > mts > d.mts > mjs >
\* other, a file named *.d.ts being ranked as d.ts and not as ts.
C17_ExtensionPrecedence ==
    Constructed =>
      \A name \in GeneratedNames :
          (\A i, j \in CandidatesFor(name) : IsIndexFile(files[i]) = IsIndexFile(files[j]))
            => /\ try_get_module_for_path(Store, name) # {}
               /\ \A i \in CandidatesFor(name) :
                     ExtensionRank(files[i]) <= ExtensionRank(CommittedFile(name))

\* the module committed for an import name
CommittedModule(name) == CHOOSE m \in try_get_module_for_path(Store, name) : TRUE

\* the module the store keeps for a name when the candidate lists are built
\* in one piece, a function of the file list and base_url alone
UnsplitModule(name) ==
    LET st == NewStore(files, CollectedIds(files))
        pairs == AllExtraPaths(st, base_url, 1, Len(files))
    IN  best_module(st, Fold(pairs, Len(pairs))[name])

\* C18: a candidate that ties with the committed module on index-ness and
\* on extension rank has no smaller ModuleId than it, however fold / reduce
\* split and merged the candidate lists; the committed module is the one
\* the file list and base_url determine.
C18_DeterministicTieBreak ==
    Constructed =>
      \A name \in GeneratedNames :
          /\ try_get_module_for_path(Store, name) # {}
          /\ CommittedModule(name).module_id + 1 \in CandidatesFor(name)
          /\ \A i \in CandidatesFor(name) :
                (/\ IsIndexFile(files[i]) = IsIndexFile(CommittedFile(name))
                 /\ ExtensionRank(files[i]) = ExtensionRank(CommittedFile(name)))
                  => CommittedModule(name).module_id <= i - 1
          /\ CommittedModule(name) = UnsplitModule(name)

\* a.ts scanned twice: modules 0 and 1 tie for /r/a, and module 0 has it
C18_Witness ==
    /\ Constructed
    /\ files = <<File_a_ts, File_a_ts>>
    /\ CommittedModule(Alias_a).module_id = 0

\* a path with the extension of its last component removed: both pieces of
\* a declaration file's .d.ts, .d.mts or .d.cts, one piece otherwise, none
\* when the component has no extension
ExtensionStripped(path) ==
    LET name == path[Len(path)]
        n == Len(name)
        drop == IF Len(DeclaredExtension(path)) = 2 THEN 2
                ELSE IF n >= 2 /\ ~(n = 2 /\ name[1] = "") THEN 1
                ELSE 0
    IN  [path EXCEPT ![Len(path)] = SubSeq(name, 1, n - drop)]

\* the spellings a scanned file answers to: its own path, the path below
\* base_url, the directory of an index file
Spellings(f) ==
    {f}
      \cup {SubSeq(f, Len(b) + 1, Len(f)) :
               b \in {x \in base_url : Len(x) < Len(f) /\ SubSeq(f, 1, Len(x)) = x}}
      \cup (IF IsIndexFile(f) THEN {SubSeq(f, 1, Len(f) - 1)} ELSE {})

\* the spellings with the extension-stripped variant of each
ExpectedKeys(f) == Spellings(f) \cup {ExtensionStripped(a) : a \in Spellings(f)}

\* C19: once the store is constructed, every scanned file's own path, its
\* path below base_url, its directory when it is an index file, and the
\* extension-stripped variant of each, is a key of the map from import
\* names to modules, and leads to a scanned file that answers to it.
C19_AliasCompleteness ==
    Constructed =>
      \A i \in 1 .. Len(files) : \A key \in ExpectedKeys(files[i]) :
          /\ try_get_module_for_path(Store, key) # {}
          /\ \E j \in 1 .. Len(files) :
                /\ CommittedFile(key) = files[j]
                /\ key \in ExpectedKeys(files[j])

\* the extension-less import name the store generates for a file's own path
\* (the last name of extra_paths)
StrippedAlias(f) ==
    LET names == extra_paths(f, base_url) IN names[Len(names)]

\* C20: the extension-stripped name registered for a file X.d.ts, X.d.mts
\* or X.d.cts is X, both extensions removed, and for a file with any other
\* extension it is the path with exactly one extension removed.
C20_DeclarationStripping ==
    Constructed =>
      \A i \in 1 .. Len(files) :
          /\ StrippedAlias(files[i]) = ExtensionStripped(files[i])
          /\ try_get_module_for_path(Store, ExtensionStripped(files[i])) # {}

\* C21: once the store is constructed, looking up a scanned file's own path
\* gives a module that was made for that file; no import name generated
\* from another file has taken the entry over.
C21_SelfAlias ==
    Constructed =>
      \A i \in 1 .. Len(files) :
          /\ try_get_module_for_path(Store, files[i]) # {}
          /\ files[CommittedModule(files[i]).module_id + 1] = files[i]

\* C22: whatever list of paths new() is given, a path listed twice included,
\* no two modules of module_id_to_module have path ids that refer to equal
\* paths.
C22_OneModulePerFile ==
    \A i, j \in 1 .. Len(module_id_to_module) :
        get_path_for_module(Store, module_id_to_module[i])
            = get_path_for_module(Store, module_id_to_module[j])
          => i = j

\* the extensions of imports that are not code: style sheets, templates,
\* data, text, shaders, images, audio, video and fonts
NonCodeExtensions ==
    {"css", "ejs", "html", "json", "md", "txt", "svg", "wasm", "webm", "vert",
     "frag", "vtt", "woff", "woff2", "avif", "gif", "jpg", "png", "m4a", "mp3",
     "mp4", "ogv", "otf", "ttf"}

IsNonCode(dependency) == extension(dependency) \cap NonCodeExtensions # {}

\* the resolution errors recorded for the import it
ErrorsOf(it) ==
    {k \in 1 .. Len(resolution_errors_raw) :
        /\ resolution_errors_raw[k].file = OwnerPath(it)
        /\ resolution_errors_raw[k].message[1] = Dependency(it)}

\* C23: an import whose extension is one of the non-code extensions gives
\* no edge and no resolution error, relative or not.
C23_NonCodeSkipped ==
    \A it \in DOMAIN items :
        (IsNonCode(Dependency(it)) /\ items[it].pc = "done")
          => items[it].result = {} /\ ErrorsOf(it) = {}

\* an import that begins with ./ or ../
BeginsRelative(dependency) == dependency[1] \in {CurDir, ParentDir}

\* the path a relative import is looked up under
TriedPath(it) == clean(join(parent(OwnerPath(it)), Dependency(it)))

\* the imports that spell the import it again in the same file, it included
SameImport(it) ==
    {jt \in DOMAIN items :
        OwnerPath(jt) = OwnerPath(it) /\ Dependency(jt) = Dependency(it)}

\* C24: an import that begins with ./ or ../ and is not skipped is joined
\* with the directory of its file, cleaned and looked up.  A hit gives one
\* edge to the module found and no error; a miss gives no edge and one
\* resolution error of the file, naming the path tried; no external module
\* is ever made for it.
C24_RelativeResolution ==
    \A it \in DOMAIN items :
        (BeginsRelative(Dependency(it)) /\ ~IsNonCode(Dependency(it))) =>
          /\ items[it].pc # "missed"
          /\ Dependency(it) \notin DOMAIN node_module_import_path_to_node_module_id
          /\ \A k \in ErrorsOf(it) : resolution_errors_raw[k].message[2] = TriedPath(it)
          /\ IF TriedPath(it) \in DOMAIN path_to_module_id_map
             THEN /\ ErrorsOf(it) = {}
                  /\ items[it].pc = "done"
                       => items[it].result = {path_to_module_id_map[TriedPath(it)]}
             ELSE /\ items[it].result = {}
                  /\ Cardinality(ErrorsOf(it))
                       = Cardinality({jt \in SameImport(it) : items[jt].pc = "done"})
          /\ \A r \in returned :
                Len(r.resolved_dependencies[it[1]][2])
                  = Cardinality({jt \in DOMAIN items :
                                    jt[1] = it[1] /\ items[jt].result # {}})

\* resolve_imports has returned; ./b of /r/a.ts hit /r/b.ts, ../a of /r/b.ts
\* was tried as /a and missed
C24_Witness ==
    /\ returned # {}
    /\ files = <<File_a_ts, File_b_ts>>
    /\ raw_dependencies[1][2] = <<Import_rel_b>>
    /\ raw_dependencies[2][2] = <<Import_up_a>>
    /\ items[<<1, 1>>].result = {1}
    /\ items[<<2, 1>>].result = {}
    /\ resolution_errors_raw
          = <<[file |-> File_b_ts, message |-> <<Import_up_a, <<RootDir, <<"a">>>>>>]>>

\* what an import is an import of, by the file list, base_url and the import
\* alone: nothing, a scanned module, or a package
ImportTarget(it) ==
    LET dependency == Dependency(it)
        against_base_url ==
            {clean(join(b, dependency)) : b \in base_url} \cap DOMAIN path_to_module_id_map
    IN  IF extension(dependency) \cap SkippedExtensions # {} THEN {}
        ELSE IF BeginsRelative(dependency)
        THEN (IF TriedPath(it) \in DOMAIN path_to_module_id_map
              THEN {<<"module", path_to_module_id_map[TriedPath(it)]>>} ELSE {})
        ELSE IF dependency \in DOMAIN path_to_module_id_map
        THEN {<<"module", path_to_module_id_map[dependency]>>}
        ELSE IF against_base_url # {}
        THEN {<<"module", path_to_module_id_map[p]>> : p \in against_base_url}
        ELSE {<<"package", PackageRoot(dependency)>>}

\* what a returned target id stands for: a scanned module's id for that
\* module, any other id for the packages whose imports were answered with it
StandsFor(id) ==
    IF id < Len(files) THEN {<<"module", id>>}
    ELSE UNION {ImportTarget(it) : it \in {jt \in DOMAIN items : items[jt].result = {id}}}

\* the edges returned, each target read as what it stands for
ReturnedEdges(r) ==
    UNION {{<<r.resolved_dependencies[o][1], t>> :
               t \in UNION {StandsFor(r.resolved_dependencies[o][2][k]) :
                               k \in 1 .. Len(r.resolved_dependencies[o][2])}} :
            o \in 1 .. Len(r.resolved_dependencies)}

\* the edges the (owner, imports) pairs and the lookup map determine
DeterminedEdges ==
    UNION {{<<path_to_module_id_map[OwnerPath(it)], t>> : t \in ImportTarget(it)} :
            it \in DOMAIN items}

\* C25: whatever the interleaving of the workers, the set of edges returned
\* by resolve_imports is the one the (owner, imports) pairs and the lookup
\* map determine, a package's module being read as the package.
C25_EdgeSetDeterminism ==
    \A r \in returned : ReturnedEdges(r) = DeterminedEdges

\* add_all_modules has run
GraphBuilt == dependency_graph.module_ids # <<>>

\* C26: once resolve_imports and add_all_modules have run, every edge target
\* stored in the graph, the modules of packages included, is the id of a
\* module that was added as a node.
C26_NoDanglingEdges ==
    GraphBuilt =>
      \A k \in 1 .. Len(dependency_graph.module_edges) :
          /\ dependency_graph.module_edges[k] \in Range(dependency_graph.module_ids)
          /\ dependency_graph.module_edges[k] \in DOMAIN dependency_graph.module_id_to_idx

\* the spellings of a file from base_url: its path below base_url, with its
\* extension and extension-stripped
BaseUrlSpellings(f) ==
    UNION {{SubSeq(f, Len(b) + 1, Len(f)),
            ExtensionStripped(SubSeq(f, Len(b) + 1, Len(f)))} :
             b \in {x \in base_url : Len(x) < Len(f) /\ SubSeq(f, 1, Len(x)) = x}}

\* C27: with base_url set, an import that is not relative and spells a
\* scanned file from base_url, with its extension or without, resolves to
\* that file's module: it gives an edge to it and no module of a package
\* is made for it.
C27_BaseUrlImports ==
    \A it \in DOMAIN items : \A n \in 1 .. Len(files) :
        Dependency(it) \in BaseUrlSpellings(files[n]) =>
          /\ items[it].pc # "missed"
          /\ Dependency(it) \notin DOMAIN node_module_import_path_to_node_module_id
          /\ items[it].pc = "done" => items[it].result = {n - 1}

\* the module ids a lookup of path gives: {} for None
LookupModuleIds(path) == {m.module_id : m \in try_get_module_for_path(Store, path)}

\* C28: once add_node_module(d) has returned a module, a lookup of d and a
\* lookup of the package root of d both give a module with its module_id,
\* and go on doing so whatever add_node_module calls follow.
C28_ExternalAliasesPersist ==
    Constructed =>
      \A i \in AddNodeModuleCalls :
          /\ LookupModuleIds(hist.calls[i][2]) = {hist.calls[i][3]}
          /\ LookupModuleIds(PackageRoot(hist.calls[i][2])) = {hist.calls[i][3]}

\* C29: with get_id_for_path and add_node_module callers running together,
\* in every state a reader can see, each PathId of path_to_path_id indexes
\* an entry of path_id_to_path that holds the same path, each Module of
\* path_id_to_module has a module_id that indexes an entry of
\* module_id_to_module and a path_id that indexes a path, and the ids a
\* caller has obtained are in bounds.
C29_SnapshotConsistency ==
    /\ \A p \in DOMAIN path_to_path_id :
          /\ path_to_path_id[p] < Len(path_id_to_path)
          /\ path_id_to_path[path_to_path_id[p] + 1] = p
    /\ \A id \in DOMAIN path_id_to_module :
          /\ id < Len(path_id_to_path)
          /\ path_id_to_module[id].module_id < Len(module_id_to_module)
          /\ path_id_to_module[id].path_id < Len(path_id_to_path)
    /\ \A t \in DOMAIN threads :
          /\ threads[t].pc \in {"mod_read", "mod_write", "insert"}
                => threads[t].path_id < Len(path_id_to_path)
          /\ \A m \in threads[t].module :
                m.module_id < Len(module_id_to_module) /\ m.path_id < Len(path_id_to_path)
    /\ \A x \in hist.ret : x[2] < Len(path_id_to_path)

\* one add_node_module holds the module it has just made and is about to
\* map its deep path, while the other caller is between its lookup and its
\* write
C29_Witness ==
    /\ threads # <<>>
    /\ \E t, u \in DOMAIN threads :
          /\ threads[t].pc = "insert"
          /\ \E m \in threads[t].module : m.module_id >= Len(files)
          /\ threads[u].pc \in {"id_write", "mod_write"}

\* the imports of the file at path f for which an error was recorded with
\* the message msg: relative, not dropped, and not found
FailedImports(f, msg) ==
    {it \in DOMAIN items :
        /\ OwnerPath(it) = f
        /\ BeginsRelative(Dependency(it))
        /\ extension(Dependency(it)) \cap SkippedExtensions = {}
        /\ TriedPath(it) \notin DOMAIN path_to_module_id_map
        /\ msg = <<Dependency(it), TriedPath(it)>>}

\* the messages an import of f can fail with
FailureMessages(f) ==
    {<<Dependency(it), TriedPath(it)>> : it \in {jt \in DOMAIN items : OwnerPath(jt) = f}}

\* how often msg occurs in a list of messages
Occurrences(list, msg) == Cardinality({k \in 1 .. Len(list) : list[k] = msg})

\* C30: whatever the interleaving of the workers, resolve_imports returns no
\* error map when no resolution error was recorded, and otherwise a map in
\* which each recorded error occurs once, in the list of its file, and
\* nothing else does.
C30_ErrorGrouping ==
    \A r \in returned :
        /\ r.errors = {} <=> Len(resolution_errors_raw) = 0
        /\ r.errors = {}
              <=> \A f \in Range(files) : \A msg \in FailureMessages(f) :
                     FailedImports(f, msg) = {}
        /\ \A m \in r.errors :
              /\ DOMAIN m = {f \in Range(files) :
                                \E msg \in FailureMessages(f) : FailedImports(f, msg) # {}}
              /\ \A f \in DOMAIN m :
                    /\ \A k \in 1 .. Len(m[f]) : m[f][k] \in FailureMessages(f)
                    /\ \A msg \in FailureMessages(f) :
                          /\ Occurrences(m[f], msg) = Cardinality(FailedImports(f, msg))
                          /\ Occurrences(m[f], msg)
                                = Cardinality({k \in 1 .. Len(resolution_errors_raw) :
                                      resolution_errors_raw[k] = [file |-> f, message |-> msg]})

\* resolve_imports has returned a map with the two failures of /r/a.ts and
\* the one of /r/b.ts, b.ts's recorded between a.ts's
C30_Witness ==
    /\ files = <<File_a_ts, File_b_ts>>
    /\ Len(resolution_errors_raw) = 3
    /\ resolution_errors_raw[1].file = File_a_ts
    /\ resolution_errors_raw[2].file = File_b_ts
    /\ resolution_errors_raw[3].file = File_a_ts
    /\ \E r \in returned : \E m \in r.errors :
          /\ DOMAIN m = {File_a_ts, File_b_ts}
          /\ Len(m[File_a_ts]) = 2
          /\ Len(m[File_b_ts]) = 1

\* C34: at every point of a sequential traversal seen_nodes has one entry
\* per node of the graph, and entry i is true exactly when node i has been
\* popped (yielded) at least once; hence marking one node changes the entry
\* of no other.
C34_SeenVectorInvariant ==
    /\ Len(seen_nodes) = graph.node_count
    /\ \A i \in Nodes(graph) : VecAt(seen_nodes, i) <=> i \in yielded

\* C35: in a sequential traversal a pop of a node that was popped before
\* pushes nothing: the stack it leaves is the stack without its top.
C35_FirstVisitOnly ==
    [][(/\ forks[1].stack # <<>>
        /\ Top(forks[1].stack).node_idx \in yielded)
          => forks'[1].stack = Rest(forks[1].stack)]_vars

\* C36: a fork appears only by a split of a traversal whose stack has
\* n >= 2 items; the split leaves the first n div 2 items in that traversal
\* and gives the others, in order, to the new fork, changes no other fork,
\* and leaves graph, direction, max_depth and the shared seen_nodes as they
\* were.
C36_SplitHalves ==
    [][Len(forks') # Len(forks) =>
          /\ Len(forks') = Len(forks) + 1
          /\ \E i \in 1 .. Len(forks) :
                LET n == Len(forks[i].stack)
                    fork == forks'[Len(forks')]
                IN  /\ n >= 2
                    /\ forks'[i].stack = SubSeq(forks[i].stack, 1, n \div 2)
                    /\ fork.stack = SubSeq(forks[i].stack, n \div 2 + 1, n)
                    /\ forks'[i].stack \o fork.stack = forks[i].stack
                    /\ \A j \in 1 .. Len(forks) : j # i => forks'[j] = forks[j]
          /\ UNCHANGED <<graph, direction, max_depth, seen_nodes, yielded>>]_vars

\* the seed had three neighbours; the split left the first pending item in
\* the original and moved the other two to the fork
C36_Witness ==
    /\ Len(forks) = 2
    /\ Cardinality(yielded) = 1
    /\ Len(forks[1].stack) = 1
    /\ Len(forks[2].stack) = 2
    /\ forks[1].pc = "idle"
    /\ forks[2].pc = "idle"

\* a call the visitor handles: import(...) or require(...)
IsImportOrRequire(node) ==
    /\ node.type = "CallExpr"
    /\ \/ node.callee.callee = "Import"
       \/ /\ node.callee.callee = "Expr"
          /\ node.callee.expr = Expression("Ident", "", "require")

\* the call has exactly one argument, and it is a string literal
HasOneStringLiteral(node) ==
    /\ Len(node.args) = 1
    /\ node.args[1].expr.expr = "Lit"
    /\ node.args[1].expr.lit = "Str"

\* C33: a visited import(...) or require(...) call appends one entry to
\* dependencies and nothing to errors if it has exactly one argument that is
\* a string literal, and otherwise appends one entry to errors and nothing to
\* dependencies.
C33_CallOutcome ==
    \A h \in Range(visited) :
        IsImportOrRequire(h.node) =>
            IF HasOneStringLiteral(h.node)
            THEN /\ visitor.errors = h.before.errors
                 /\ Len(visitor.dependencies) = Len(h.before.dependencies) + 1
                 /\ SubSeq(visitor.dependencies, 1, Len(h.before.dependencies))
                        = h.before.dependencies
            ELSE /\ visitor.dependencies = h.before.dependencies
                 /\ Len(visitor.errors) = Len(h.before.errors) + 1
                 /\ SubSeq(visitor.errors, 1, Len(h.before.errors)) = h.before.errors

\* require('./b') has been visited after a call that was reported: the
\* dependency is added and the earlier error is kept
C33_Witness ==
    \E h \in Range(visited) :
        /\ h.node.callee.expr = Expression("Ident", "", "require")
        /\ HasOneStringLiteral(h.node)
        /\ Len(h.before.errors) = 1
        /\ visitor.dependencies = <<Import_rel_b>>
        /\ visitor.errors = h.before.errors

\* an order of the four locks: a lock is taken only while locks that come
\* before it are held
LockRank(lock) ==
    CASE lock = "path_id_to_path" -> 1
      [] lock = "module_id_to_module" -> 1
      [] lock = "path_id_to_module" -> 2
      [] lock = "path_to_path_id" -> 3

\* thread t is in a call
InCall(t) == threads[t].pc # "idle"

\* C37: under every interleaving of get_id_for_path, try_get_module_for_path,
\* get_path_for_module and add_node_module callers, a thread that holds a
\* guard asks only for locks that come later in one fixed order of the four
\* locks, so the acquisitions form no cycle, and whenever a call is under
\* way some thread in a call can take its next step: no set of callers
\* waits for one another.
C37_NoLockCycle ==
    /\ \A t \in DOMAIN guards : \A g \in guards[t] :
          g[2] \in {"read", "write"} =>
              \A lock \in NextWrite(threads[t]) \cup NextRead(threads[t]) :
                  LockRank(g[1]) < LockRank(lock)
    /\ (\E t \in DOMAIN guards : InCall(t))
          => \E t \in DOMAIN guards : InCall(t) /\ ENABLED LockStep(t)

\* every call a thread is in returns
C37_EveryCallReturns ==
    \A t \in Threads : (threads # <<>> /\ InCall(t)) ~> (threads # <<>> /\ ~InCall(t))

\* one thread holds the read guard of path_id_to_module inside
\* try_get_module_for_path while another, inside get_module_for_path with the
\* write guard of module_id_to_module, has set the writer bit of
\* path_id_to_module and waits for the reader to leave
C37_Witness ==
    \E t, u \in DOMAIN guards :
        /\ <<"module_id_to_module", "write">> \in guards[t]
        /\ <<"path_id_to_module", "wait">> \in guards[t]
        /\ <<"path_id_to_module", "read">> \in guards[u]
        /\ threads[u].pc = "try_id"

\* the positions of the calls of get_all_dependencies in a run of events
Queries(new) == {k \in 1 .. Len(new) : new[k].op = "query"}

\* the positions of the results reported in a run of events: the
\* dependencies found, the error of the query, or the path that is invalid
Results(new) ==
    {k \in 1 .. Len(new) :
        \/ new[k].op = "eprintln" /\ new[k].arg = "Done in {:?}: {:#?}"
        \/ /\ new[k].op = "println"
           /\ new[k].arg \in {"Error getting dependencies {:?}", "Invalid path: {}"}}

C32_ErrorsReported ==
    [][LET new == SubSeq(console', Len(console) + 1, Len(console'))
           raw == new[2].arg
           unresolved == path_parser_absolute(repl.file_input) = {}
           failed == \E k \in Queries(new) : new[k].arg.outcome = "Err"
       IN  (/\ repl.pc = "direction"
            /\ new # <<>>
            /\ IsUtf8(raw)
            /\ parse_direction(trim(raw)) # {}
            /\ unresolved \/ failed)
              => /\ repl'.pc = "path"
                 /\ \E k \in 1 .. Len(new) :
                       /\ new[k].op = "println"
                       /\ new[k].arg = IF unresolved THEN "Invalid path: {}"
                                       ELSE "Error getting dependencies {:?}"
                 /\ UNCHANGED <<dependency_graph, path_to_module_id_map>>]_vars

\* a path that does not exist and a query that failed have both been
\* reported, and main is at the path prompt
C32_Witness ==
    /\ repl.pc = "path"
    /\ dependency_graph # EmptyDependencyGraph
    /\ \E j, k \in 1 .. Len(console) :
          /\ j < k
          /\ console[j] = Event("println", "Invalid path: {}")
          /\ console[k] = Event("println", "Error getting dependencies {:?}")

\* C38: the program leaves its prompts only in a step that read a line
\* which, trimmed, is q, and the empty line of the end of input at the
\* direction prompt leaves it at the direction prompt.
C38_ExitsOnlyOnQ ==
    [][LET new == SubSeq(console', Len(console) + 1, Len(console'))
           raw == new[2].arg
       IN  new # <<>> =>
              /\ repl'.pc \notin {"path", "direction"} => trim(raw) = <<"q">>
              /\ (repl.pc = "direction" /\ raw = <<>>) => repl' = repl]_vars

====
